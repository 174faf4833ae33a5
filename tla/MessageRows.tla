------------------------------- MODULE MessageRows -------------------------------
(***************************************************************************)
(* One row of the table messages under the operations of                   *)
(* MessageRepository.  Each but softDelete reads the row, changes a field  *)
(* of what it read and saves the whole of it: TypeORM's save writes every  *)
(* column in which the entity differs from the table, those it found       *)
(* before another call changed them included.                              *)
(***************************************************************************)
EXTENDS Naturals, FiniteSets

CONSTANTS
  Reader,      \* who reacts, reads, edits
  RowSender,   \* the sender of the message
  Emoji,
  RowCall      \* repository calls running at a time (a bound)

ASSUME MessageRowsAssumption == RowSender \in Reader

VARIABLES
  row,        \* the row
  rowCalls    \* call -> what it does, for whom, and the row it read

messageRowsVars == <<row, rowCalls>>

\* A reaction: an entry <<emoji, reader>>; the content is who wrote it last.
MessageRow == [content : Reader, reactions : SUBSET (Emoji \X Reader),
               readBy : SUBSET Reader, deleted : BOOLEAN]

Operation == [op : {"edit", "read"}, by : Reader]
               \cup [op : {"react", "unreact"}, by : Reader, emoji : Emoji]

noCall == [op |-> "none"]

RunningCall == [does : Operation, found : MessageRow]

MessageRowsTypeOK ==
  /\ row \in MessageRow
  /\ rowCalls \in [RowCall -> {noCall} \cup RunningCall]

\* As MessageRepository.create leaves it: read by its sender.
MessageRowsInit ==
  /\ row = [content |-> RowSender, reactions |-> {}, readBy |-> {RowSender}, deleted |-> FALSE]
  /\ rowCalls = [c \in RowCall |-> noCall]
-----------------------------------------------------------------------------
edit(r, by) == [r EXCEPT !.content = by]

addReaction(r, emoji, by) == [r EXCEPT !.reactions = @ \cup {<<emoji, by>>}]

\* Mutant of removeReaction: the emoji's whole entry is deleted.
removeReaction_WholeEntry(r, emoji, by) ==
  [r EXCEPT !.reactions = {x \in @ : x[1] # emoji \/ by \notin Reader}]

removeReaction(r, emoji, by) == [r EXCEPT !.reactions = @ \ {<<emoji, by>>}]

markAsRead(r, by) == [r EXCEPT !.readBy = @ \cup {by}]

after(r, does) ==
  CASE does.op = "edit"    -> edit(r, does.by)
    [] does.op = "read"    -> markAsRead(r, does.by)
    [] does.op = "react"   -> addReaction(r, does.emoji, does.by)
    [] does.op = "unreact" -> removeReaction(r, does.emoji, does.by)

FindRow(c, does) ==
  /\ rowCalls[c] = noCall
  /\ rowCalls' = [rowCalls EXCEPT ![c] = [does |-> does, found |-> row]]
  /\ UNCHANGED row

SaveRow(c) ==
  /\ rowCalls[c] # noCall
  /\ row' = after(rowCalls[c].found, rowCalls[c].does)
  /\ rowCalls' = [rowCalls EXCEPT ![c] = noCall]

\* One update statement of one column.
SoftDelete ==
  /\ ~row.deleted
  /\ row' = [row EXCEPT !.deleted = TRUE]
  /\ UNCHANGED rowCalls

MessageRowsNext ==
  \/ \E c \in RowCall, d \in Operation : FindRow(c, d)
  \/ \E c \in RowCall : SaveRow(c)
  \/ SoftDelete

MessageRowsSpec == MessageRowsInit /\ [][MessageRowsNext]_messageRowsVars
-----------------------------------------------------------------------------
\* What a reader loses at a step: a reaction, a read mark, the deletion.
lost(p) ==
  \/ \E x \in row.reactions \ row'.reactions : x[2] = p
  \/ p \in row.readBy \ row'.readBy
  \/ row.deleted /\ ~row'.deleted

\* Nobody's reaction or read mark goes, and no deleted message comes back, but by a
\* removal of one's own or by a call that found the row before another changed it:
\* that every call saves the whole row it read is the only way to lose anything.
LostOnlyToOverlap ==
  [][\A p \in Reader : lost(p) =>
        \E c \in RowCall :
           /\ rowCalls[c] # noCall /\ rowCalls'[c] = noCall
           /\ \/ rowCalls[c].found # row
              \/ rowCalls[c].does.op = "unreact" /\ rowCalls[c].does.by = p]_messageRowsVars
=============================================================================
