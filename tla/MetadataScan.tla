---------------------------- MODULE MetadataScan ----------------------------
(***************************************************************************)
(* The scanner that reads a request's routing metadata while its body goes *)
(* by (proxy/replay_body.rs, MetadataScanner), beside what a parser makes  *)
(* of the same document: what ties it to an account is what the socket     *)
(* lanes look for in a parsed frame (proxy/websocket_protocol.rs,          *)
(* has_file_reference, contains_nonportable_state).                        *)
(*                                                                         *)
(* A document is fed one token at a time: the scanner keeps a few flags    *)
(* for each open container, the parser the path.  Strings are names from a *)
(* small set, spelled plainly or with escapes; names stand for their bytes *)
(* and over-long ones are left out.                                        *)
(***************************************************************************)
EXTENDS Naturals, FiniteSets, Sequences, SequencesExt

CONSTANTS
  Names,          \* property names of the documents
  Contents,         \* string values of the documents
  MaxDepth,       \* open containers the scanner follows (128)
  MaxFiles,       \* file ids it keeps (32)
  MaxTokens,      \* bound: length of a document
  None

VARIABLES
  path,           \* the parser: open containers, outermost first
  next,           \* what may come: "value", "key", "colon" or "comma"
  parsed,         \* what the parser has found
  scan,           \* the scanner
  fed             \* tokens so far

vars == <<path, next, parsed, scan, fed>>

-----------------------------------------------------------------------------
(* State.                                                                  *)

\* A string and its spelling.
Strings == [text : Names \cup Contents, escaped : BOOLEAN]

\* Property names whose presence ties a request to its account.
OwnedKeys == {"encrypted_content", "operation_id"}   \* in any object
OwnedRootKeys == {"conversation", "turn_state"}
OwnedTypes == {"reasoning", "compaction", "item_reference"}
FileTypes == {"input_file", "input_image"}

Found == [model |-> None, thread |-> None, previous |-> None,
          files |-> {}, owned |-> FALSE, escaped |-> FALSE]

Init ==
  /\ path = <<>> /\ next = "value" /\ parsed = Found
  /\ scan = [containers |-> <<>>, client |-> 0, key |-> None, pending |-> None,
             off |-> FALSE, model |-> None, thread |-> None, previous |-> None,
             files |-> {}, overflow |-> FALSE, owned |-> FALSE]
  /\ fed = 0

Depth == Len(path)

-----------------------------------------------------------------------------
(* The parser: a container knows the property it is in, the property it    *)
(* is the value of, and the type and file id among its own properties.     *)

Frame(object) ==
  [object |-> object, key |-> None, type |-> None, file |-> None,
   of |-> IF Depth > 0 THEN Last(path).key ELSE None,
   \* whether it is an element of the root's "input" array
   item |-> Depth = 2 /\ ~path[2].object /\ path[2].of = "input"]

\* A property of the innermost object gets a value, which may not be a string:
\* the last of equal names counts.
Assigned(frame, value) ==
  IF ~frame.object THEN frame
  ELSE [frame EXCEPT !.type = IF frame.key = "type" THEN value ELSE @,
                     !.file = IF frame.key = "file_id" THEN value ELSE @]

AssignedRoot(value) ==
  LET k == IF Depth = 0 THEN None ELSE Last(path).key IN
  [parsed EXCEPT
     !.model    = IF Depth = 1 /\ k = "model" THEN value ELSE @,
     !.previous = IF Depth = 1 /\ k = "previous_response_id" THEN value ELSE @,
     !.thread   = IF Depth = 2 /\ k = "thread_id" /\ path[2].object /\ path[2].of = "client_metadata"
                  THEN value
                  ELSE IF Depth = 1 /\ k = "client_metadata" THEN None ELSE @]

\* An id spelled with escapes.
Ids == {"previous_response_id", "thread_id", "file_id"}
Spelled(p, s) ==
  [p EXCEPT !.escaped = @ \/ (s.escaped /\ Last(path).key \in Ids)]

\* What a closed object meant.
Closed(frame) ==
  [parsed EXCEPT
     !.files = IF frame.type \in FileTypes /\ frame.file # None THEN @ \cup {frame.file} ELSE @,
     !.owned = @ \/ frame.type \in OwnedTypes]

\* A name alone may tie the request to its account.
Named(k) ==
  [parsed EXCEPT !.owned = @ \/ k \in OwnedKeys
                             \/ (Depth = 1 /\ k \in OwnedRootKeys)
                             \/ (Last(path).item /\ k = "id")]

SetLast(s, f) == [s EXCEPT ![Len(s)] = f]

-----------------------------------------------------------------------------
(* The scanner.                                                            *)

InnerMost == Last(scan.containers)
ScanDepth == Len(scan.containers)

\* What a property name announces.
Kind(s) ==
  LET t == s.text IN
  CASE ScanDepth = 1 /\ t = "model" -> "model"    \* decoded, whatever its spelling
    [] ScanDepth = 1 /\ ~s.escaped /\ t \in {"client_metadata", "previous_response_id", "input"} -> t
    [] scan.client = ScanDepth /\ ~s.escaped /\ t = "thread_id" -> t
    [] ~s.escaped /\ t \in {"file_id", "type"} -> t
    [] OTHER -> "other"

\* Mutant: an escaped key is compared as it is spelled.
ScanKeyUnescaped(s) ==
  [scan EXCEPT
     !.key = Kind(s),
     !.containers = SetLast(@, [InnerMost EXCEPT !.expect_key = FALSE]),
     !.model = IF Kind(s) = "model" THEN None ELSE @,
     !.owned = @ \/ (~s.escaped /\ s.text \in OwnedKeys)]

\* finish_string for a property name.
ScanKey(s) ==
  [scan EXCEPT
     !.key = Kind(s),
     !.containers = SetLast(@, [InnerMost EXCEPT !.expect_key = FALSE]),
     !.model = IF Kind(s) = "model" THEN None ELSE @,
     !.owned = @ \/ s.escaped
                 \/ s.text \in OwnedKeys
                 \/ (ScanDepth = 1 /\ s.text \in OwnedRootKeys)
                 \/ (InnerMost.native_input_item /\ s.text = "id")]

\* finish_string for a value; an escape spoils what is not decoded.
ScanValue(s) ==
  LET kind == scan.pending
      plain == ~s.escaped
      c == InnerMost
  IN [scan EXCEPT
        !.pending = None,
        !.model = IF kind = "model" THEN s.text ELSE @,
        !.thread = IF kind = "thread_id" /\ plain THEN s.text ELSE @,
        !.previous = IF kind = "previous_response_id" /\ plain THEN s.text ELSE @,
        !.owned = @ \/ (kind = "type" /\ (s.escaped \/ s.text \in OwnedTypes)),
        !.containers =
           IF kind = "file_id" /\ plain THEN SetLast(@, [c EXCEPT !.file_id = s.text])
           ELSE IF kind = "type" /\ plain
                THEN SetLast(@, [c EXCEPT !.account_scoped_file = s.text \in FileTypes])
           ELSE @]

ScanColon == [scan EXCEPT !.pending = scan.key, !.key = None]

ScanOpen(object) ==
  IF ScanDepth >= MaxDepth THEN [scan EXCEPT !.owned = TRUE, !.off = TRUE]
  ELSE LET parent == ScanDepth > 0 /\ (ScanDepth > 0 => InnerMost.input_array)
       IN [scan EXCEPT
             !.pending = None,
             !.client = IF object /\ scan.pending = "client_metadata" THEN ScanDepth + 1 ELSE @,
             !.containers = Append(@,
                [object |-> object, expect_key |-> object, file_id |-> None,
                 account_scoped_file |-> FALSE,
                 input_array |-> ~object /\ ScanDepth = 1 /\ scan.pending = "input",
                 native_input_item |-> object /\ parent])]

ScanClose ==
  LET c == InnerMost
      new == c.account_scoped_file /\ c.file_id # None /\ c.file_id \notin scan.files
      full == new /\ Cardinality(scan.files) >= MaxFiles
  IN [scan EXCEPT
        !.client = IF @ = ScanDepth THEN 0 ELSE @,
        !.containers = Front(@),
        !.files = IF new /\ ~full THEN @ \cup {c.file_id} ELSE @,
        !.overflow = @ \/ full,
        !.off = @ \/ full,
        !.pending = None, !.key = None]

ScanComma ==
  [scan EXCEPT !.containers = IF ScanDepth > 0 /\ InnerMost.object
                              THEN SetLast(@, [InnerMost EXCEPT !.expect_key = TRUE]) ELSE @,
               !.pending = None, !.key = None]

ScanScalar == [scan EXCEPT !.pending = None]

\* finish: a document that does not end is nobody's.
Finished ==
  [scan EXCEPT !.owned = @ \/ scan.containers # <<>>]

Feed(s) == scan' = IF scan.off THEN scan ELSE s

-----------------------------------------------------------------------------
(* Documents.                                                              *)

Tick == fed < MaxTokens /\ fed' = fed + 1

AfterValue == IF Depth = 0 THEN "end" ELSE "comma"

Key ==
  /\ Tick /\ next = "key"
  /\ \E s \in Strings :
       /\ s.text \in Names
       /\ path' = SetLast(path, [Last(path) EXCEPT !.key = s.text])
       /\ parsed' = Named(s.text)
       /\ Feed(ScanKey(s))
  /\ next' = "colon"

Colon ==
  /\ Tick /\ next = "colon"
  /\ next' = "value"
  /\ Feed(ScanColon)
  /\ UNCHANGED <<path, parsed>>

String ==
  /\ Tick /\ next = "value" /\ Depth > 0
  /\ \E s \in Strings :
       /\ s.text \in Contents
       /\ path' = SetLast(path, Assigned(Last(path), s.text))
       /\ parsed' = Spelled(AssignedRoot(s.text), s)
       /\ Feed(ScanValue(s))
  /\ next' = AfterValue

Scalar ==
  /\ Tick /\ next = "value" /\ Depth > 0
  /\ path' = SetLast(path, Assigned(Last(path), None))
  /\ parsed' = AssignedRoot(None)
  /\ Feed(ScanScalar)
  /\ next' = AfterValue

Open(object) ==
  /\ Tick /\ next = "value"
  /\ Depth > 0 \/ object
  /\ path' = Append(IF Depth = 0 THEN path ELSE SetLast(path, Assigned(Last(path), None)),
                    Frame(object))
  /\ parsed' = AssignedRoot(None)
  /\ next' = IF object THEN "key" ELSE "value"
  /\ Feed(ScanOpen(object))

Comma ==
  /\ Tick /\ next = "comma"
  /\ next' = IF Last(path).object THEN "key" ELSE "value"
  /\ Feed(ScanComma)
  /\ UNCHANGED <<path, parsed>>

\* Empty containers are left out.
Close ==
  /\ Tick /\ next = "comma"
  /\ path' = Front(path)
  /\ parsed' = Closed(Last(path))
  /\ next' = IF Depth = 1 THEN "end" ELSE "comma"
  /\ Feed(ScanClose)

Next ==
  \/ Key \/ Colon \/ String \/ Scalar \/ Comma \/ Close
  \/ \E object \in BOOLEAN : Open(object)

Spec == Init /\ [][Next]_vars

-----------------------------------------------------------------------------
(* Properties.                                                             *)

(***************************************************************************)
(* What upstream's parser takes for account-owned, the scanner has seen,   *)
(* or it has declared the request nonportable: thread, previous response   *)
(* and files, in every document and every spelling of the names.  It gives *)
(* up on an id that is itself spelled with escapes.                        *)
(***************************************************************************)
OwnershipSeen ==
  next = "end" =>
    \/ Finished.owned
    \/ scan.overflow
    \/ /\ ~parsed.owned
       /\ \/ parsed.escaped
          \/ /\ parsed.previous \in {None, scan.previous}
             /\ parsed.thread \in {None, scan.thread}
             /\ parsed.files \subseteq scan.files

(***************************************************************************)
(* Routing by model uses the model that upstream will use, unless the      *)
(* scanner says that it did not see all of the document.                   *)
(***************************************************************************)
ModelAgrees ==
  next = "end" /\ ~scan.off => scan.model = parsed.model
=============================================================================
