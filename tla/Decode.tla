------------------------------- MODULE Decode -------------------------------
(***************************************************************************)
(* Decode (src/decode.go) against the server that feeds it.  The server    *)
(* describes a table (RelationMessage) before the first row of it that a   *)
(* session is sent, and again when its schema has changed since; a row is  *)
(* sent as a tuple of values without names.  Decode caches the             *)
(* descriptions and puts the names back.                                   *)
(*                                                                         *)
(* A row is a function from the names of the columns to what is sent of    *)
(* the value: "n" (NULL), "u" (an unchanged TOAST value: nothing) or "t"   *)
(* (text).  The text of a value is abstracted to the name of the column it *)
(* was written to: a value under another name shows.                       *)
(***************************************************************************)
EXTENDS Integers, FiniteSets, SequencesExt

CONSTANTS
    Schemas,     \* per table, its successive schemas: [name, columns]
    Null,        \* Go's nil: a NULL, or no row, or no cached description
    MaxWire,     \* bound: messages under way
    MaxWritten,  \* bound: changes written in a session
    MaxSessions  \* bound

Tables == DOMAIN Schemas

\* The names of the columns of a table differ; nil is not a row, a tuple, a map
\* or a description.
ASSUME DecodeAssumption ==
    /\ IsFiniteSet(Tables)
    /\ \A t \in Tables : /\ Schemas[t] # <<>>
                         /\ Schemas[t] \in Seq(Range(Schemas[t]))
    /\ \A t \in Tables : \A s \in Range(Schemas[t]) :
          LET names == Range(s.columns)
          IN  /\ s.columns \in Seq(names) /\ IsInjective(s.columns)
              /\ s # Null
              /\ Null \notin [names -> {"n", "u", "t"}]
              /\ Null \notin [DOMAIN s.columns -> [type : {"n", "u", "t"}, data : names]]
              /\ \A sent \in SUBSET names : Null \notin [sent -> names \cup {Null}]
    /\ MaxSessions \in Nat \ {0}

VARIABLES
    version,    \* at the server: the current schema of each table
    described,  \* at the server: the tables described since their last change
    wire,       \* the messages on their way
    written,    \* history: the changes written in this session, sent or decoded
    sessions,
    relations,  \* the cache, a new one in each session
    processed,  \* Metrics.ChangesProcessed of the session
    changes,    \* what the last call of Decode returned
    meant,      \* history: what was written that it was called for
    outOfStep   \* history: Decode failed, or ran off the end of a description

server == <<version, described, written, sessions>>
decoder == <<relations, processed, changes, meant, outOfStep>>
vars == <<server, wire, decoder>>

TypeOK ==
    /\ \A t \in Tables : /\ version[t] \in DOMAIN Schemas[t]
                         /\ relations[t] \in {Null} \cup Range(Schemas[t])
    /\ described \subseteq Tables
    /\ written \in Nat /\ processed \in Nat /\ sessions \in 1 .. MaxSessions
    /\ \A i \in DOMAIN changes :
          LET c == changes[i]
          IN  /\ c.operation \in {"insert", "update", "delete", "truncate"}
              /\ (c.newRow = Null) = (c.operation \in {"delete", "truncate"})
              /\ c.operation \in {"insert", "truncate"} => c.oldRow = Null
    /\ outOfStep \in BOOLEAN

Init ==
    /\ version = [t \in Tables |-> 1] /\ described = {}
    /\ wire = <<>> /\ written = 0 /\ sessions = 1
    /\ relations = [t \in Tables |-> Null]
    /\ processed = 0 /\ changes = <<>> /\ meant = <<>> /\ outOfStep = FALSE

-----------------------------------------------------------------------------
(* The server.                                                             *)

Schema(t) == Schemas[t][version[t]]
Columns(t) == Range(Schema(t).columns)

\* A message says, for the history, what was written and after how many changes.
Describe(t) == [kind |-> "relation", id |-> t, relation |-> Schema(t),
                meant |-> <<>>, before |-> written]

\* The tuple of a row, if there is one.
Tuple(s, row) ==
    IF row = Null THEN Null
    ELSE [i \in DOMAIN s.columns |-> [type |-> row[s.columns[i]], data |-> s.columns[i]]]

\* What a row says, by the names its columns had when it was written.
Written(row) ==
    IF row = Null THEN Null
    ELSE [c \in {c \in DOMAIN row : row[c] # "u"} |-> IF row[c] = "n" THEN Null ELSE c]

\* The old row of an update or a delete is sent by its key, the first column.
KeyRow(t) == [c \in Columns(t) |-> IF c = Schema(t).columns[1] THEN "t" ELSE "n"]

Change(table, operation, oldRow, newRow) ==
    [table |-> table, operation |-> operation, oldRow |-> oldRow, newRow |-> newRow]

Send(T, message) ==
    /\ Len(wire) < MaxWire /\ written < MaxWritten
    /\ wire' = wire \o SetToSeq({Describe(t) : t \in T \ described}) \o <<message>>
    /\ described' = described \cup T
    /\ written' = written + Len(message.meant)
    /\ UNCHANGED <<version, sessions, decoder>>

\* A row message, for the old and the new row (Null for none).
RowMessage(t, operation, oldRow, newRow) ==
    [kind |-> operation, id |-> t,
     old |-> Tuple(Schema(t), oldRow), new |-> Tuple(Schema(t), newRow),
     meant |-> <<Change(Schema(t).name, operation, Written(oldRow), Written(newRow))>>,
     before |-> written]

SendInsert(t) ==
    \E row \in [Columns(t) -> {"n", "t"}] : Send({t}, RowMessage(t, "insert", Null, row))

\* The old row comes along if the key has changed.
SendUpdate(t) ==
    \E row \in [Columns(t) -> {"n", "u", "t"}], oldRow \in {Null, KeyRow(t)} :
        Send({t}, RowMessage(t, "update", oldRow, row))

SendDelete(t) == Send({t}, RowMessage(t, "delete", KeyRow(t), Null))

SendTruncate ==
    \E T \in SUBSET Tables \ {{}} :
        LET ids == SetToSeq(T)
        IN  Send(T, [kind |-> "truncate", ids |-> ids,
                     meant |-> [i \in DOMAIN ids |->
                                  Change(Schema(ids[i]).name, "truncate", Null, Null)],
                     before |-> written])

Alter(t) ==
    /\ version[t] < Len(Schemas[t])
    /\ version' = [version EXCEPT ![t] = @ + 1]
    /\ described' = described \ {t}
    /\ UNCHANGED <<wire, written, sessions, decoder>>

-----------------------------------------------------------------------------
(* Decode.                                                                 *)

\* A call of Decode returns cs, or fails; either way the message is gone.
Returns(cs, fits) ==
    /\ wire' = Tail(wire)
    /\ meant' = Head(wire).meant
    /\ changes' = IF fits THEN cs ELSE <<>>
    /\ outOfStep' = (outOfStep \/ ~fits)
    /\ UNCHANGED server

\* Mutant: a table that is cached is not cached again.
DecodeRelationOnce(m) ==
    /\ m.kind = "relation"
    /\ relations' = [relations EXCEPT ![m.id] = IF @ = Null THEN m.relation ELSE @]
    /\ Returns(<<>>, TRUE)
    /\ UNCHANGED processed

DecodeRelation(m) ==
    /\ m.kind = "relation"
    /\ relations' = [relations EXCEPT ![m.id] = m.relation]
    /\ Returns(<<>>, TRUE)
    /\ UNCHANGED processed

\* tupleToMap has a name for every value of the tuple.
Fits(tuple, rel) == tuple = Null \/ Len(tuple) <= Len(rel.columns)

\* Mutant: no row is an empty row.
TupleToMapNotNil(tuple, rel) ==
    LET sent == {i \in DOMAIN rel.columns : tuple # Null /\ tuple[i].type # "u"}
    IN  [c \in {rel.columns[i] : i \in sent} |->
            LET i == CHOOSE i \in sent : rel.columns[i] = c
            IN  IF tuple[i].type = "n" THEN Null ELSE tuple[i].data]

\* NULLs are kept, unchanged TOAST values are left out.
TupleToMap(tuple, rel) ==
    LET sent == {i \in DOMAIN tuple : tuple[i].type # "u"}
    IN  IF tuple = Null THEN Null
        ELSE [c \in {rel.columns[i] : i \in sent} |->
                LET i == CHOOSE i \in sent : rel.columns[i] = c
                IN  IF tuple[i].type = "n" THEN Null ELSE tuple[i].data]

\* The description has to be in the cache (relationFor).
DecodeRow(m) ==
    /\ m.kind \in {"insert", "update", "delete"}
    /\ LET rel == relations[m.id]
       IN  Returns(<<Change(rel.name, m.kind, TupleToMap(m.old, rel), TupleToMap(m.new, rel))>>,
                   rel # Null /\ Fits(m.old, rel) /\ Fits(m.new, rel))
    /\ processed' = processed + Len(changes')
    /\ UNCHANGED relations

Truncated(ids) == [i \in DOMAIN ids |-> Change(relations[ids[i]].name, "truncate", Null, Null)]

\* Mutant: a truncate counts as one change, by way of counted.
DecodeTruncateOnce(m) ==
    /\ m.kind = "truncate"
    /\ Returns(Truncated(m.ids), TRUE)
    /\ processed' = processed + 1
    /\ UNCHANGED relations

\* One change for each table; all of them have to be in the cache.
DecodeTruncate(m) ==
    /\ m.kind = "truncate"
    /\ Returns(Truncated(m.ids), \A i \in DOMAIN m.ids : relations[m.ids[i]] # Null)
    /\ processed' = processed + Len(changes')
    /\ UNCHANGED relations

\* A new session: a new stream with an empty cache and new counters, and a
\* walsender that has described nothing.
NewSession ==
    /\ sessions < MaxSessions
    /\ sessions' = sessions + 1
    /\ wire' = <<>> /\ described' = {} /\ written' = 0
    /\ relations' = [t \in Tables |-> Null]
    /\ processed' = 0 /\ changes' = <<>> /\ meant' = <<>>
    /\ UNCHANGED <<version, outOfStep>>

-----------------------------------------------------------------------------
Next ==
    \/ \E t \in Tables : SendInsert(t) \/ SendUpdate(t) \/ SendDelete(t) \/ Alter(t)
    \/ SendTruncate
    \/ /\ wire # <<>>
       /\ \/ DecodeRelation(Head(wire)) \/ DecodeRow(Head(wire))
          \/ DecodeTruncate(Head(wire))
    \/ NewSession

Spec == Init /\ [][Next]_vars

-----------------------------------------------------------------------------

\* "Every data message must be preceded by its RelationMessage; a missing entry
\* means the stream is out of sync": it never is, and no tuple has more values
\* than the cached description has names.  The schemas may change in between,
\* since the server (Alter, Send) describes a table again before its next row;
\* the README goes further than the code needs and says "schema changes can
\* desync decoding".
InStep == ~outOfStep

\* A change comes out as it was written: under the name its table had then,
\* every value under the name of its column, whatever the schema has become
\* since; on the same ground, and against the same sentence of the README.
RowsAsWritten == changes = meant

\* ChangesProcessed "counts every successfully decoded, non-nil Change": of what
\* was written in the session, all is counted that was written before the next
\* message on its way, and nothing else.
EveryChangeCounted == processed = IF wire = <<>> THEN written ELSE Head(wire).before
=============================================================================
