------------------------- MODULE ConversationProofs -------------------------
(***************************************************************************)
(* What the runs check of a conversation holds for any contacts, any count *)
(* of texts, chats opened, handlers at work and backups: what was typed is *)
(* kept (TypedIsKept), marks and pins survive every rewriting of a contact *)
(* row (MarksAreKept), the sidebar agrees with the messages (StatsFollow). *)
(*                                                                         *)
(* The handlers read, wait and write: the invariant says what each of them *)
(* still holds (RowIsFresh, Holds), what the sends may still take from the *)
(* input (SendsInput), who still owes the sidebar a count (CountsHold).    *)
(***************************************************************************)
EXTENDS Conversation, FiniteSetTheorems, WellFoundedInduction, TLAPS

-----------------------------------------------------------------------------
(* The types of the fields, and the inductive invariant.                   *)

Message == [id : 1 .. MaxTexts, seen : {"mine", "unread", "read"}, form : Form]
Count == [last : 0 .. MaxTexts, form : Form, unread : {Cardinality(ms) : ms \in SUBSET Message}]
Kind == {"send", "file", "arrive", "read", "edited", "deleted", "clear", "refresh", "reconcile", "import"}
Work == [kind : Kind, peer : Thread, step : Steps, text : 0 .. MaxTexts, row : Row, seen : Count,
         ids : SUBSET Message, nr : Nat]

\* What a job still needs for its next steps.
JobTyped(j) ==
  /\ j \in Work
  /\ j.step = "seal" => j.text # 0
  /\ j.step = "alter" => j.kind \in Form
  /\ j.step \in {"note", "clear"} => j.kind = "send"

JobsTyped == \A j \in jobs : JobTyped(j)

ComposerTyped ==
  /\ open \in Thread \cup {NoThread} /\ saving \in BOOLEAN /\ (saving => open # NoThread)
  /\ typed \in [Thread -> 0 .. MaxTexts \cup {NoThread}]
  /\ texts \in 0 .. MaxTexts /\ moves \in Nat

RowsOfChats == card \in [Thread -> Row] /\ wish \in [Thread -> Row]

LogsTyped == log \in [Thread -> SUBSET Message] /\ stat \in [Thread -> Count]

FlagsTyped == {hasty, torn, bent} \subseteq [Thread -> BOOLEAN]

CopyTyped == copy # <<>> => copy \in [Thread -> [card : Row, log : SUBSET Message]]

ConversationTyped ==
  ComposerTyped /\ RowsOfChats /\ LogsTyped /\ FlagsTyped /\ CopyTyped /\ JobsTyped

\* A handler that is about to put a row back still holds the row as it is.
RowIsFresh == \A j \in jobs : j.step = "put" /\ ~torn[j.peer] => j.row = card[j.peer]

\* What the user wants in the input is there, or the send that will empty the
\* input is past emptying the draft; whoever sends a text of the chat sends the
\* one that stands in the input.
OneText(p) ==
  ~hasty[p] /\ ~torn[p] =>
    /\ \/ wish[p].draft \in {0, Input(p)}
       \/ \E j \in jobs : j.kind = "send" /\ j.peer = p /\ j.step = "clear" /\ j.text = wish[p].draft
    /\ \A j \in jobs : j.kind = "send" /\ j.peer = p => {wish[p].draft, Input(p)} \subseteq {0, j.text}

SendsInput == \A p \in Thread : OneText(p)

\* Who is still to count the messages of its chat, or to delete its row.
Owing(j) == j.step \in {"count", "stat", "drop", "list", "reset"}

\* What a handler counted, listed or found deleted is still so.
Holds(j, ms) ==
  /\ j.step = "stat" => j.seen = Summary(ms)
  /\ j.step = "drop" => ms = {}
  /\ j.step = "wipe" => \A m \in ms : \E n \in j.ids : n.id = m.id

\* The row of the sidebar is right, or somebody is still to put it right.
Counted(p) ==
  ~bent[p] =>
    /\ stat[p] = Summary(log[p]) \/ \E j \in jobs : j.peer = p /\ Owing(j)
    /\ \A j \in jobs : j.peer = p => Holds(j, log[p])

CountsHold == \A p \in Thread : Counted(p)

ConversationInv == ConversationTyped /\ RowIsFresh /\ MarksAreKept /\ SendsInput /\ CountsHold

-----------------------------------------------------------------------------
(* Jobs, rows and the summary of a chat.                                   *)

\* A chat without messages counts none.
LEMMA CountOfNone == NoStat \in Count
<1>1. Cardinality({}) = 0
  BY FS_EmptySet
<1>2. 0 \in {Cardinality(ms) : ms \in SUBSET Message}
  BY <1>1
<1>3. QED
  BY <1>2, ConversationAssumption DEF NoStat, Count, Form

\* A handler that begins is at work on its chat, with nothing read yet.
LEMMA JobMade ==
  ASSUME NEW kind \in Kind, NEW p \in Thread, NEW step \in Steps, moves \in Nat
  PROVE  /\ Job(kind, p, step) \in Work
         /\ Job(kind, p, step).kind = kind /\ Job(kind, p, step).peer = p /\ Job(kind, p, step).step = step
<1>1. NewRow \in Row /\ 0 \in 0 .. MaxTexts
  BY ConversationAssumption DEF NewRow, Row
<1>2. QED
  BY <1>1, CountOfNone DEF Job, Work

\* One more handler of its type.
LEMMA JobAdded ==
  ASSUME JobsTyped, NEW h, JobTyped(h), jobs' \subseteq jobs \cup {h} PROVE JobsTyped'
BY DEF JobsTyped

\* What PutCard writes is a row; only the archive flag and, for reconcile, the pin differ.
LEMMA WholeRowFields ==
  ASSUME NEW j, j.row \in Row
  PROVE  /\ WholeRow(j) \in Row
         /\ WholeRow(j).draft = j.row.draft /\ WholeRow(j).mark = j.row.mark
         /\ WholeRow(j).pin = IF j.kind = "reconcile" THEN 0 ELSE j.row.pin
<1>1. CASE j.kind \in {"send", "file", "arrive"}
  BY <1>1 DEF WholeRow, Row
<1>2. CASE j.kind = "reconcile"
  <2> DEFINE away == j.row.archived /\ \A m \in j.ids : m.seen = "mine"
  <2>1. away \in BOOLEAN
    OBVIOUS
  <2>2. WholeRow(j) = [j.row EXCEPT !.pin = 0, !.archived = away]
    BY <1>2 DEF WholeRow, Row
  <2> HIDE DEF away
  <2>3. [j.row EXCEPT !.pin = 0] \in Row
    BY DEF Row
  <2>4. [[j.row EXCEPT !.pin = 0] EXCEPT !.archived = away] \in Row
    BY <2>1, <2>3 DEF Row
  <2>5. WholeRow(j) = [[j.row EXCEPT !.pin = 0] EXCEPT !.archived = away]
    BY <2>2
  <2>6. /\ WholeRow(j).draft = j.row.draft /\ WholeRow(j).mark = j.row.mark /\ WholeRow(j).pin = 0
    BY <2>2 DEF Row
  <2>7. QED
    BY <1>2, <2>4, <2>5, <2>6
<1>3. CASE j.kind \notin {"send", "file", "arrive", "reconcile"}
  <2>1. WholeRow(j) = j.row
    BY <1>3 DEF WholeRow
  <2>2. QED
    BY <1>3, <2>1
<1>4. QED
  BY <1>1, <1>2, <1>3

\* The fields of a contact that a backup does not bring back.
LEMMA RestoredFields ==
  ASSUME NEW r \in Row
  PROVE  /\ Restored(r) \in Row /\ Restored(r).draft = r.draft /\ Restored(r).pin = 0 /\ Restored(r).mark = 0
<1>1. [r EXCEPT !.pin = 0] \in Row
  BY DEF Row
<1>2. [[r EXCEPT !.pin = 0] EXCEPT !.mark = 0] \in Row
  BY <1>1 DEF Row
<1>3. [[[r EXCEPT !.pin = 0] EXCEPT !.mark = 0] EXCEPT !.archived = FALSE] \in Row
  BY <1>2 DEF Row
<1>4. Restored(r) = [[[r EXCEPT !.pin = 0] EXCEPT !.mark = 0] EXCEPT !.archived = FALSE]
  BY DEF Restored
<1>5. Restored(r).draft = r.draft /\ Restored(r).pin = 0 /\ Restored(r).mark = 0
  BY DEF Restored, Row
<1>6. QED
  BY <1>3, <1>4, <1>5

\* Marking or pinning a contact leaves rows.
LEMMA MarkTyped ==
  ASSUME ConversationTyped, NEW p \in Thread, NEW field \in {"mark", "pin"}, Mark(p, field)
  PROVE  RowsOfChats'
<1>1. /\ card' = [card EXCEPT ![p] = [card[p] EXCEPT ![field] = 1 - @]]
      /\ wish' = [wish EXCEPT ![p] = [wish[p] EXCEPT ![field] = 1 - card[p][field]]]
  BY DEF Mark, Writes, ConversationTyped, RowsOfChats
<1>2. card[p] \in Row /\ wish[p] \in Row
  BY DEF ConversationTyped, RowsOfChats
<1>3. card[p][field] \in 0 .. 1
  BY <1>2 DEF Row
<1>4. 1 - card[p][field] \in 0 .. 1
  BY <1>3
<1>5. [card[p] EXCEPT ![field] = 1 - @] \in Row
  BY <1>2, <1>4 DEF Row
<1>6. [wish[p] EXCEPT ![field] = 1 - card[p][field]] \in Row
  BY <1>2, <1>4 DEF Row
<1>7. QED
  BY <1>1, <1>5, <1>6 DEF ConversationTyped, RowsOfChats

\* Among the messages of a chat that has any, one has the largest id.
LEMMA LatestExists ==
  ASSUME NEW ms \in SUBSET Message, ms # {}
  PROVE  \E m \in ms : \A n \in ms : n.id <= m.id
<1> DEFINE Ages == {MaxTexts - m.id : m \in ms}
<1>1. \A m \in ms : m.id \in Nat /\ MaxTexts - m.id \in Nat
  BY ConversationAssumption DEF Message
<1>2. Ages \subseteq Nat /\ Ages # {}
  BY <1>1
<1>3. PICK a \in Ages : \A b \in Ages : <<b, a>> \notin OpToRel(<, Nat)
  BY <1>2, WFMin, NatLessThanWellFounded, Zenon
<1>4. \A b \in Ages : b < a => <<b, a>> \in OpToRel(<, Nat)
  BY <1>2, Zenon DEF OpToRel
<1>5. PICK m \in ms : a = MaxTexts - m.id
  BY <1>3
<1>6. ASSUME NEW n \in ms PROVE n.id <= m.id
  <2>1. ~(MaxTexts - n.id < a)
    BY <1>3, <1>4
  <2>2. QED
    BY <2>1, <1>1, <1>5, ConversationAssumption
<1>7. QED
  BY <1>6

\* The latest message of a chat that has one, and what the sidebar says of a chat.
LEMMA SummaryTyped == ASSUME NEW ms \in SUBSET Message PROVE Summary(ms) \in Count
<1>1. CASE ms = {}
  BY <1>1, CountOfNone DEF Summary
<1>2. CASE ms # {}
  <2> DEFINE latest == CHOOSE m \in ms : \A n \in ms : n.id <= m.id
             unread == Cardinality({m \in ms : m.seen = "unread"})
  <2>1. latest \in ms
    BY <1>2, LatestExists
  <2>2. latest.id \in 0 .. MaxTexts /\ latest.form \in Form
    BY <2>1, ConversationAssumption DEF Message
  <2>3. {m \in ms : m.seen = "unread"} \in SUBSET Message
    OBVIOUS
  <2>4. unread \in {Cardinality(s) : s \in SUBSET Message}
    BY <2>3
  <2>5. Summary(ms) = [last |-> latest.id, form |-> latest.form, unread |-> unread]
    BY <1>2 DEF Summary
  <2> HIDE DEF latest, unread
  <2>6. QED
    BY <2>2, <2>4, <2>5 DEF Count
<1>3. QED
  BY <1>1, <1>2

\* What the sidebar says of a chat without messages.
LEMMA SummaryOfNone == Summary({}) = NoStat
BY DEF Summary

\* A step that leaves the chat's input, what is wished there and its sends as they are.
LEMMA SendsAsBefore ==
  ASSUME NEW p \in Thread, OneText(p), hasty'[p] = hasty[p], torn[p] => torn'[p],
         wish'[p].draft = wish[p].draft, ~torn'[p] => Input(p)' = Input(p),
         \A h \in jobs' : h.kind = "send" =>
           \E k \in jobs : k.kind = "send" /\ k.peer = h.peer /\ k.text = h.text,
         \A k \in jobs : k.kind = "send" /\ k.step = "clear" => k \in jobs'
  PROVE  OneText(p)'
BY DEF OneText

\* A job that goes on as h is still the send of the same text.
LEMMA SendsMoved ==
  ASSUME NEW j \in jobs, NEW h, h.kind = j.kind, h.peer = j.peer, h.text = j.text,
         jobs' = (jobs \ {j}) \cup {h}, j.step # "clear"
  PROVE  /\ \A g \in jobs' : g.kind = "send" =>
              \E k \in jobs : k.kind = "send" /\ k.peer = g.peer /\ k.text = g.text
         /\ \A k \in jobs : k.kind = "send" /\ k.step = "clear" => k \in jobs'
<1>1. ASSUME NEW g \in jobs', g.kind = "send"
      PROVE \E k \in jobs : k.kind = "send" /\ k.peer = g.peer /\ k.text = g.text
  <2>1. CASE g \in jobs
    BY <1>1, <2>1
  <2>2. CASE g = h
    BY <1>1, <2>2
  <2>3. QED
    BY <2>1, <2>2
<1>2. QED
  BY <1>1

\* A handler that reads or counts on as h leaves the input and the sends as they are.
LEMMA SendsGoOn ==
  ASSUME SendsInput, NEW j \in jobs, NEW h, h.kind = j.kind, h.peer = j.peer, h.text = j.text,
         jobs' = (jobs \ {j}) \cup {h}, j.step # "clear", UNCHANGED <<hasty, torn, wish, typed, card>>
  PROVE  SendsInput'
<1>1. /\ \A g \in jobs' : g.kind = "send" =>
           \E k \in jobs : k.kind = "send" /\ k.peer = g.peer /\ k.text = g.text
      /\ \A k \in jobs : k.kind = "send" /\ k.step = "clear" => k \in jobs'
  BY SendsMoved
<1>2. ASSUME NEW p \in Thread PROVE OneText(p)'
  <2>1. OneText(p) /\ Input(p)' = Input(p)
    BY DEF SendsInput, Input
  <2>2. QED
    BY <1>1, <2>1, SendsAsBefore
<1>3. QED
  BY <1>2 DEF SendsInput

\* A handler goes on as h: h still holds, and what the handler owed is paid or owed by h.
LEMMA CountedMoved ==
  ASSUME ConversationTyped, CountsHold, NEW j \in jobs, NEW h, h.peer = j.peer,
         jobs' = (jobs \ {j}) \cup {h}, UNCHANGED <<log, bent>>,
         \A p \in Thread : p # j.peer => stat'[p] = stat[p],
         ~bent[j.peer] => Holds(h, log[j.peer]),
         ~bent[j.peer] => \/ stat'[j.peer] = Summary(log[j.peer]) \/ Owing(h)
                          \/ ~Owing(j) /\ stat'[j.peer] = stat[j.peer]
  PROVE  CountsHold'
<1>1. ASSUME NEW p \in Thread, ~bent[p], NEW k \in jobs', k.peer = p PROVE Holds(k, log[p])
  BY <1>1 DEF CountsHold, Counted
<1>2. ASSUME NEW p \in Thread, ~bent[p]
      PROVE  stat'[p] = Summary(log[p]) \/ \E k \in jobs' : k.peer = p /\ Owing(k)
  <2>1. stat[p] = Summary(log[p]) \/ \E k \in jobs : k.peer = p /\ Owing(k)
    BY <1>2 DEF CountsHold, Counted
  <2>2. QED
    BY <1>2, <2>1
<1>3. QED
  BY <1>1, <1>2 DEF CountsHold, Counted, Holds, Owing

\* A handler ends: what it owed is paid.
LEMMA CountedEnds ==
  ASSUME ConversationTyped, CountsHold, NEW j \in jobs, jobs' = jobs \ {j}, UNCHANGED <<log, bent>>,
         \A p \in Thread : p # j.peer => stat'[p] = stat[p],
         ~bent[j.peer] => \/ stat'[j.peer] = Summary(log[j.peer])
                          \/ ~Owing(j) /\ stat'[j.peer] = stat[j.peer]
  PROVE  CountsHold'
<1>1. ASSUME NEW p \in Thread, ~bent[p], NEW k \in jobs', k.peer = p PROVE Holds(k, log[p])
  BY <1>1 DEF CountsHold, Counted
<1>2. ASSUME NEW p \in Thread, ~bent[p]
      PROVE  stat'[p] = Summary(log[p]) \/ \E k \in jobs' : k.peer = p /\ Owing(k)
  <2>1. stat[p] = Summary(log[p]) \/ \E k \in jobs : k.peer = p /\ Owing(k)
    BY <1>2 DEF CountsHold, Counted
  <2>2. QED
    BY <1>2, <2>1
<1>3. QED
  BY <1>1, <1>2 DEF CountsHold, Counted, Holds, Owing

\* The messages of a chat change and h is to count them.
LEMMA CountedLogged ==
  ASSUME ConversationTyped, CountsHold, NEW p \in Thread, NEW ms, NEW own, Logs(p, ms, own),
         \A j \in own : j.peer = p, NEW h, h.peer = p, Owing(h), ~bent[p] => Holds(h, ms),
         jobs' = (jobs \ own) \cup {h}, stat' = stat
  PROVE  CountsHold'
<1>1. /\ log' = [log EXCEPT ![p] = ms]
      /\ bent' = [bent EXCEPT ![p] = @ \/ \E k \in jobs \ own : k.peer = p /\ k.step \in {"stat", "wipe", "drop"}]
      /\ log \in [Thread -> SUBSET Message] /\ bent \in [Thread -> BOOLEAN]
  BY DEF Logs, ConversationTyped, LogsTyped, FlagsTyped
<1>2. ASSUME NEW q \in Thread, q # p, ~bent'[q]
      PROVE  /\ stat'[q] = Summary(log'[q]) \/ \E k \in jobs' : k.peer = q /\ Owing(k)
             /\ \A k \in jobs' : k.peer = q => Holds(k, log'[q])
  <2>1. log'[q] = log[q] /\ bent'[q] = bent[q]
    BY <1>1, <1>2
  <2>2. \A k : k.peer = q => (k \in jobs' <=> k \in jobs)
    BY <1>2
  <2>3. QED
    BY <1>2, <2>1, <2>2 DEF CountsHold, Counted
<1>3. ASSUME ~bent'[p]
      PROVE  /\ \E k \in jobs' : k.peer = p /\ Owing(k)
             /\ \A k \in jobs' : k.peer = p => Holds(k, log'[p])
  <2>1. log'[p] = ms /\ ~bent[p] /\ \A k \in jobs \ own : k.peer = p => k.step \notin {"stat", "wipe", "drop"}
    BY <1>1, <1>3
  <2>2. \A k \in jobs \ own : k.peer = p => Holds(k, ms)
    BY <2>1 DEF Holds
  <2>3. QED
    BY <2>1, <2>2
<1>4. QED
  BY <1>2, <1>3 DEF CountsHold, Counted, Holds, Owing

-----------------------------------------------------------------------------
(* The invariant, part by part: each step has one proof step.              *)

\* Every step keeps the type of the composer.
LEMMA ComposerTypedStep ==
  ASSUME ConversationTyped, [ConversationNext]_conversationVars PROVE ComposerTyped'
<1>1. ASSUME NEW p \in Thread \cup {NoThread}, OpenChat(p) PROVE ComposerTyped'
  <2>1. (p # NoThread) \in BOOLEAN
    OBVIOUS
  <2>2. /\ open' = p /\ saving' = (p # NoThread) /\ UNCHANGED <<typed, texts>>
        /\ moves' = moves + 1
    BY <1>1 DEF OpenChat, Moves
  <2>3. moves' \in Nat
    BY <2>2 DEF ConversationTyped, ComposerTyped
  <2>4. QED
    BY <2>1, <2>2, <2>3 DEF ConversationTyped, ComposerTyped
<1>2. ASSUME Type PROVE ComposerTyped'
  BY <1>2, ConversationAssumption DEF Type, ComposerTyped, ConversationTyped
<1>3. ASSUME SaveDraft PROVE ComposerTyped'
  BY <1>3, ConversationAssumption DEF SaveDraft, Writes, ComposerTyped, ConversationTyped
<1>4. ASSUME Submit PROVE ComposerTyped'
  BY <1>4, ConversationAssumption DEF Submit, Starts, Moves, ComposerTyped, ConversationTyped
<1>5. ASSUME ClearChat PROVE ComposerTyped'
  BY <1>5, ConversationAssumption DEF ClearChat, Starts, Moves, ComposerTyped, ConversationTyped
<1>6. ASSUME Archive PROVE ComposerTyped'
  BY <1>6, ConversationAssumption DEF Archive, Writes, Moves, ComposerTyped, ConversationTyped, JobsTyped,
     JobTyped, Work, RowsOfChats, Row, Input
<1>7. ASSUME ReloadPage PROVE ComposerTyped'
  <2>1. /\ open' = NoThread /\ saving' = FALSE /\ typed' = [p \in Thread |-> NoThread]
        /\ texts' = texts /\ moves' = moves + 1
    BY <1>7 DEF ReloadPage, Moves
  <2>2. moves' \in Nat
    BY <2>1 DEF ConversationTyped, ComposerTyped
  <2>3. QED
    BY <2>1, <2>2 DEF ConversationTyped, ComposerTyped
<1>8. ASSUME Verify PROVE ComposerTyped'
  BY <1>8, ConversationAssumption DEF Verify, Mark, Writes, Moves, ComposerTyped, ConversationTyped
<1>9. ASSUME TogglePin PROVE ComposerTyped'
  BY <1>9, ConversationAssumption DEF TogglePin, Mark, Writes, Moves, ComposerTyped, ConversationTyped
<1>10. ASSUME SendFile PROVE ComposerTyped'
  BY <1>10, ConversationAssumption DEF SendFile, Starts, Moves, ComposerTyped, ConversationTyped
<1>11. ASSUME ExportBackup PROVE ComposerTyped'
  BY <1>11, ConversationAssumption DEF ExportBackup, Moves, ComposerTyped, ConversationTyped
<1>12. ASSUME ImportBackup PROVE ComposerTyped'
  BY <1>12, ConversationAssumption DEF ImportBackup, Moves, ComposerTyped, ConversationTyped
<1>13. ASSUME NEW p \in Thread, Arrives(p) PROVE ComposerTyped'
  BY <1>13, ConversationAssumption DEF Arrives, Comes, Starts, Logs, Moves, ComposerTyped, ConversationTyped
<1>14. ASSUME NEW p \in Thread, SentElsewhere(p) PROVE ComposerTyped'
  BY <1>14, ConversationAssumption DEF SentElsewhere, Comes, Starts, Logs, Moves, ComposerTyped,
     ConversationTyped
<1>15. ASSUME NEW p \in Thread, Touch(p) PROVE ComposerTyped'
  BY <1>15, ConversationAssumption DEF Touch, Starts, Moves, ComposerTyped, ConversationTyped
<1>16. ASSUME NEW p \in Thread, NEW m \in log[p], EditEnvelope(p, m) PROVE ComposerTyped'
  BY <1>16, ConversationAssumption DEF EditEnvelope, RevisedByPeer, Alters, Starts, Logs, Moves,
     ComposerTyped, ConversationTyped
<1>17. ASSUME NEW p \in Thread, NEW m \in log[p], DeleteEnvelope(p, m) PROVE ComposerTyped'
  BY <1>17, ConversationAssumption DEF DeleteEnvelope, RevisedByPeer, Alters, Starts, Logs, Moves,
     ComposerTyped, ConversationTyped
<1>18. ASSUME NEW p \in Thread, NEW m \in log[p], p = open, ReadMessage(m) PROVE ComposerTyped'
  BY <1>18, ConversationAssumption DEF ReadMessage, Starts, Logs, Moves, ComposerTyped, ConversationTyped
<1>19. ASSUME NEW p \in Thread, NEW m \in log[p], p = open, SendEdit(m) PROVE ComposerTyped'
  BY <1>19, ConversationAssumption DEF SendEdit, Revise, Starts, Moves, ComposerTyped, ConversationTyped
<1>20. ASSUME NEW p \in Thread, NEW m \in log[p], p = open, SendDelete(m) PROVE ComposerTyped'
  BY <1>20, ConversationAssumption DEF SendDelete, Revise, Starts, Moves, ComposerTyped, ConversationTyped
<1>21. ASSUME NEW p \in Thread, PinEnvelope(p) PROVE ComposerTyped'
  BY <1>21, ConversationAssumption DEF PinEnvelope, Mark, Writes, Moves, ComposerTyped, ConversationTyped
<1>22. ASSUME NEW p \in Thread, Refresh(p) PROVE ComposerTyped'
  BY <1>22, ConversationAssumption DEF Refresh, Rewrite, Starts, Moves, ComposerTyped, ConversationTyped
<1>23. ASSUME NEW p \in Thread, Reconcile(p) PROVE ComposerTyped'
  BY <1>23, ConversationAssumption DEF Reconcile, Rewrite, Starts, Moves, ComposerTyped, ConversationTyped
<1>24. ASSUME NEW j \in jobs, SubmitFails(j) PROVE ComposerTyped'
  BY <1>24, ConversationAssumption DEF SubmitFails, JobEnds, ComposerTyped, ConversationTyped
<1>25. ASSUME NEW j \in jobs, StoreSent(j) PROVE ComposerTyped'
  BY <1>25, ConversationAssumption DEF StoreSent, Logs, Goes, ComposerTyped, ConversationTyped
<1>26. ASSUME NEW j \in jobs, ForgetDraft(j) PROVE ComposerTyped'
  BY <1>26, ConversationAssumption DEF ForgetDraft, Writes, Goes, ComposerTyped, ConversationTyped
<1>27. ASSUME NEW j \in jobs, ClearInput(j) PROVE ComposerTyped'
  BY <1>27, ConversationAssumption DEF ClearInput, JobEnds, ComposerTyped, ConversationTyped, JobsTyped,
     JobTyped, Work, RowsOfChats, Row, Input
<1>28. ASSUME NEW j \in jobs, CountThread(j) PROVE ComposerTyped'
  BY <1>28, ConversationAssumption DEF CountThread, Goes, ComposerTyped, ConversationTyped
<1>29. ASSUME NEW j \in jobs, PutStat(j) PROVE ComposerTyped'
  BY <1>29, ConversationAssumption DEF PutStat, JobEnds, Goes, ComposerTyped, ConversationTyped
<1>30. ASSUME NEW j \in jobs, WipeListed(j) PROVE ComposerTyped'
  BY <1>30, ConversationAssumption DEF WipeListed, Logs, Goes, ComposerTyped, ConversationTyped
<1>31. ASSUME NEW j \in jobs, DropStat(j) PROVE ComposerTyped'
  BY <1>31, ConversationAssumption DEF DropStat, JobEnds, ComposerTyped, ConversationTyped
<1>32. ASSUME NEW j \in jobs, GetCard(j) PROVE ComposerTyped'
  BY <1>32, ConversationAssumption DEF GetCard, Goes, ComposerTyped, ConversationTyped
<1>33. ASSUME NEW j \in jobs, PutCard(j) PROVE ComposerTyped'
  BY <1>33, ConversationAssumption DEF PutCard, Writes, JobEnds, Goes, ComposerTyped, ConversationTyped
<1>34. ASSUME NEW j \in jobs, Revised(j) PROVE ComposerTyped'
  BY <1>34, ConversationAssumption DEF Revised, Alters, Logs, JobEnds, Goes, ComposerTyped, ConversationTyped
<1>35. ASSUME NEW j \in jobs, ListThread(j) PROVE ComposerTyped'
  BY <1>35, ConversationAssumption DEF ListThread, Goes, ComposerTyped, ConversationTyped
<1>36. ASSUME NEW j \in jobs, ResetStat(j) PROVE ComposerTyped'
  BY <1>36, ConversationAssumption DEF ResetStat, Goes, ComposerTyped, ConversationTyped
<1>37. ASSUME UNCHANGED conversationVars PROVE ComposerTyped'
  BY <1>37, ConversationAssumption DEF conversationVars, ComposerTyped, ConversationTyped
<1>38. QED
  BY <1>1, <1>2, <1>3, <1>4, <1>5, <1>6, <1>7, <1>8, <1>9, <1>10, <1>11, <1>12, <1>13, <1>14, <1>15, <1>16,
     <1>17, <1>18, <1>19, <1>20, <1>21, <1>22, <1>23, <1>24, <1>25, <1>26, <1>27, <1>28, <1>29, <1>30, <1>31,
     <1>32, <1>33, <1>34, <1>35, <1>36, <1>37 DEF ConversationNext

\* Every step keeps the contact rows, as they are and as the user wants them, rows.
LEMMA RowsOfChatsStep ==
  ASSUME ConversationTyped, [ConversationNext]_conversationVars PROVE RowsOfChats'
<1>1. ASSUME NEW p \in Thread \cup {NoThread}, OpenChat(p) PROVE RowsOfChats'
  BY <1>1 DEF OpenChat, Moves, RowsOfChats, ConversationTyped
<1>2. ASSUME Type PROVE RowsOfChats'
  <2>1. /\ open \in Thread /\ card' = card /\ wish' = [wish EXCEPT ![open].draft = texts + 1]
        /\ texts < MaxTexts /\ texts \in Nat
    BY <1>2, ConversationAssumption DEF Type, ConversationTyped, ComposerTyped
  <2>2. texts + 1 \in 0 .. MaxTexts
    BY <2>1, ConversationAssumption
  <2>3. [wish[open] EXCEPT !.draft = texts + 1] \in Row
    BY <2>1, <2>2 DEF ConversationTyped, RowsOfChats, Row
  <2>4. wish' \in [Thread -> Row]
    BY <2>1, <2>3 DEF ConversationTyped, RowsOfChats
  <2>5. QED
    BY <2>1, <2>4 DEF ConversationTyped, RowsOfChats
<1>3. ASSUME SaveDraft PROVE RowsOfChats'
  <2>1. open \in Thread /\ wish' = wish /\ card' = [card EXCEPT ![open] = [card[open] EXCEPT !.draft = Input(open)]]
    BY <1>3, ConversationAssumption DEF SaveDraft, Writes, ConversationTyped, ComposerTyped
  <2>2. Input(open) \in 0 .. MaxTexts
    BY <2>1, ConversationAssumption DEF Input, ConversationTyped, ComposerTyped, RowsOfChats, Row
  <2>3. [card[open] EXCEPT !.draft = Input(open)] \in Row
    BY <2>1, <2>2 DEF ConversationTyped, RowsOfChats, Row
  <2>4. QED
    BY <2>1, <2>3 DEF ConversationTyped, RowsOfChats
<1>4. ASSUME Submit PROVE RowsOfChats'
  BY <1>4 DEF Submit, Starts, Moves, RowsOfChats, ConversationTyped
<1>5. ASSUME ClearChat PROVE RowsOfChats'
  BY <1>5 DEF ClearChat, Starts, Moves, RowsOfChats, ConversationTyped
<1>6. ASSUME Archive PROVE RowsOfChats'
  <2>1. open \in Thread /\ wish' = wish /\ card' = [card EXCEPT ![open] = [card[open] EXCEPT !.archived = ~@]]
    BY <1>6 DEF Archive, Writes, ConversationTyped, ComposerTyped
  <2>2. [card[open] EXCEPT !.archived = ~@] \in Row
    BY <2>1 DEF ConversationTyped, RowsOfChats, Row
  <2>3. QED
    BY <2>1, <2>2 DEF ConversationTyped, RowsOfChats
<1>7. ASSUME ReloadPage PROVE RowsOfChats'
  BY <1>7, ConversationAssumption DEF ReloadPage, Moves, RowsOfChats, ConversationTyped, Row, JobsTyped,
     JobTyped, Work
<1>8. ASSUME Verify PROVE RowsOfChats'
  <2>1. open \in Thread /\ Mark(open, "mark")
    BY <1>8 DEF Verify, ConversationTyped, ComposerTyped
  <2>2. QED
    BY <2>1, MarkTyped
<1>9. ASSUME TogglePin PROVE RowsOfChats'
  <2>1. open \in Thread /\ Mark(open, "pin")
    BY <1>9 DEF TogglePin, ConversationTyped, ComposerTyped
  <2>2. QED
    BY <2>1, MarkTyped
<1>10. ASSUME SendFile PROVE RowsOfChats'
  BY <1>10 DEF SendFile, Starts, Moves, RowsOfChats, ConversationTyped
<1>11. ASSUME ExportBackup PROVE RowsOfChats'
  BY <1>11 DEF ExportBackup, Moves, RowsOfChats, ConversationTyped
<1>12. ASSUME ImportBackup PROVE RowsOfChats'
  <2>1. copy \in [Thread -> [card : Row, log : SUBSET Message]]
    BY <1>12 DEF ImportBackup, ConversationTyped, CopyTyped
  <2>2. ASSUME NEW p \in Thread PROVE Restored(copy[p].card) \in Row
    <3>1. copy[p].card \in Row
      BY <2>1
    <3>2. QED
      BY <3>1, RestoredFields
  <2>3. card' \in [Thread -> Row]
    BY <1>12, <2>2 DEF ImportBackup
  <2>4. ASSUME NEW p \in Thread
        PROVE  [Restored(wish[p]) EXCEPT !.draft = IF typed[p] = NoThread THEN copy[p].card.draft ELSE @] \in Row
    <3>1. Restored(wish[p]) \in Row
      BY RestoredFields DEF ConversationTyped, RowsOfChats
    <3>2. copy[p].card.draft \in 0 .. MaxTexts
      BY <2>1 DEF Row
    <3>3. QED
      BY <3>1, <3>2 DEF Row
  <2>5. wish' \in [Thread -> Row]
    BY <1>12, <2>4 DEF ImportBackup
  <2>6. QED
    BY <2>3, <2>5 DEF RowsOfChats
<1>13. ASSUME NEW p \in Thread, Arrives(p) PROVE RowsOfChats'
  BY <1>13 DEF Arrives, Comes, Starts, Logs, Moves, RowsOfChats, ConversationTyped
<1>14. ASSUME NEW p \in Thread, SentElsewhere(p) PROVE RowsOfChats'
  BY <1>14 DEF SentElsewhere, Comes, Starts, Logs, Moves, RowsOfChats, ConversationTyped
<1>15. ASSUME NEW p \in Thread, Touch(p) PROVE RowsOfChats'
  BY <1>15 DEF Touch, Starts, Moves, RowsOfChats, ConversationTyped
<1>16. ASSUME NEW p \in Thread, NEW m \in log[p], EditEnvelope(p, m) PROVE RowsOfChats'
  BY <1>16 DEF EditEnvelope, RevisedByPeer, Alters, Starts, Logs, Moves, RowsOfChats, ConversationTyped
<1>17. ASSUME NEW p \in Thread, NEW m \in log[p], DeleteEnvelope(p, m) PROVE RowsOfChats'
  BY <1>17 DEF DeleteEnvelope, RevisedByPeer, Alters, Starts, Logs, Moves, RowsOfChats, ConversationTyped
<1>18. ASSUME NEW p \in Thread, NEW m \in log[p], p = open, ReadMessage(m) PROVE RowsOfChats'
  BY <1>18 DEF ReadMessage, Starts, Logs, Moves, RowsOfChats, ConversationTyped
<1>19. ASSUME NEW p \in Thread, NEW m \in log[p], p = open, SendEdit(m) PROVE RowsOfChats'
  BY <1>19 DEF SendEdit, Revise, Starts, Moves, RowsOfChats, ConversationTyped
<1>20. ASSUME NEW p \in Thread, NEW m \in log[p], p = open, SendDelete(m) PROVE RowsOfChats'
  BY <1>20 DEF SendDelete, Revise, Starts, Moves, RowsOfChats, ConversationTyped
<1>21. ASSUME NEW p \in Thread, PinEnvelope(p) PROVE RowsOfChats'
  BY <1>21, MarkTyped DEF PinEnvelope
<1>22. ASSUME NEW p \in Thread, Refresh(p) PROVE RowsOfChats'
  BY <1>22 DEF Refresh, Rewrite, Starts, Moves, RowsOfChats, ConversationTyped
<1>23. ASSUME NEW p \in Thread, Reconcile(p) PROVE RowsOfChats'
  BY <1>23 DEF Reconcile, Rewrite, Starts, Moves, RowsOfChats, ConversationTyped
<1>24. ASSUME NEW j \in jobs, SubmitFails(j) PROVE RowsOfChats'
  BY <1>24 DEF SubmitFails, JobEnds, RowsOfChats, ConversationTyped
<1>25. ASSUME NEW j \in jobs, StoreSent(j) PROVE RowsOfChats'
  BY <1>25 DEF StoreSent, Logs, Goes, RowsOfChats, ConversationTyped
<1>26. ASSUME NEW j \in jobs, ForgetDraft(j) PROVE RowsOfChats'
  <2>1. /\ j.peer \in Thread /\ wish' = wish
        /\ card' = [card EXCEPT ![j.peer] = [card[j.peer] EXCEPT !.draft = 0]]
    BY <1>26 DEF ForgetDraft, Writes, ConversationTyped, JobsTyped, JobTyped, Work
  <2>2. 0 \in 0 .. MaxTexts
    BY ConversationAssumption
  <2>3. [card[j.peer] EXCEPT !.draft = 0] \in Row
    BY <2>1, <2>2 DEF ConversationTyped, RowsOfChats, Row
  <2>4. QED
    BY <2>1, <2>3 DEF ConversationTyped, RowsOfChats
<1>27. ASSUME NEW j \in jobs, ClearInput(j) PROVE RowsOfChats'
  <2>1. card' = card /\ wish' = [wish EXCEPT ![j.peer].draft = IF @ = j.text THEN 0 ELSE @]
    BY <1>27 DEF ClearInput
  <2>2. ASSUME NEW d \in {0, wish[j.peer].draft} PROVE [wish EXCEPT ![j.peer].draft = d] \in [Thread -> Row]
    <3>1. 0 \in 0 .. MaxTexts
      BY ConversationAssumption
    <3>2. [wish[j.peer] EXCEPT !.draft = d] \in Row \/ j.peer \notin Thread
      BY <3>1 DEF ConversationTyped, RowsOfChats, Row
    <3>3. QED
      BY <3>2 DEF ConversationTyped, RowsOfChats
  <2>3. QED
    BY <2>1, <2>2 DEF ConversationTyped, RowsOfChats
<1>28. ASSUME NEW j \in jobs, CountThread(j) PROVE RowsOfChats'
  BY <1>28 DEF CountThread, Goes, RowsOfChats, ConversationTyped
<1>29. ASSUME NEW j \in jobs, PutStat(j) PROVE RowsOfChats'
  BY <1>29 DEF PutStat, JobEnds, Goes, RowsOfChats, ConversationTyped
<1>30. ASSUME NEW j \in jobs, WipeListed(j) PROVE RowsOfChats'
  BY <1>30 DEF WipeListed, Logs, Goes, RowsOfChats, ConversationTyped
<1>31. ASSUME NEW j \in jobs, DropStat(j) PROVE RowsOfChats'
  BY <1>31 DEF DropStat, JobEnds, RowsOfChats, ConversationTyped
<1>32. ASSUME NEW j \in jobs, GetCard(j) PROVE RowsOfChats'
  BY <1>32 DEF GetCard, Goes, RowsOfChats, ConversationTyped
<1>33. ASSUME NEW j \in jobs, PutCard(j) PROVE RowsOfChats'
  <2>1. /\ j.peer \in Thread /\ j.row \in Row
        /\ card' = [card EXCEPT ![j.peer] = WholeRow(j)]
        /\ wish' = IF j.kind = "reconcile" THEN [wish EXCEPT ![j.peer].pin = 0] ELSE wish
    BY <1>33 DEF PutCard, Writes, ConversationTyped, JobsTyped, JobTyped, Work
  <2>2. [wish[j.peer] EXCEPT !.pin = 0] \in Row
    BY <2>1 DEF ConversationTyped, RowsOfChats, Row
  <2>3. wish' \in [Thread -> Row]
    BY <2>1, <2>2 DEF ConversationTyped, RowsOfChats
  <2>4. card' \in [Thread -> Row]
    BY <2>1, WholeRowFields DEF ConversationTyped, RowsOfChats
  <2>5. QED
    BY <2>3, <2>4 DEF RowsOfChats
<1>34. ASSUME NEW j \in jobs, Revised(j) PROVE RowsOfChats'
  BY <1>34 DEF Revised, Alters, Logs, JobEnds, Goes, RowsOfChats, ConversationTyped
<1>35. ASSUME NEW j \in jobs, ListThread(j) PROVE RowsOfChats'
  BY <1>35 DEF ListThread, Goes, RowsOfChats, ConversationTyped
<1>36. ASSUME NEW j \in jobs, ResetStat(j) PROVE RowsOfChats'
  BY <1>36 DEF ResetStat, Goes, RowsOfChats, ConversationTyped
<1>37. ASSUME UNCHANGED conversationVars PROVE RowsOfChats'
  BY <1>37 DEF conversationVars, RowsOfChats, ConversationTyped
<1>38. QED
  BY <1>1, <1>2, <1>3, <1>4, <1>5, <1>6, <1>7, <1>8, <1>9, <1>10, <1>11, <1>12, <1>13, <1>14, <1>15, <1>16,
     <1>17, <1>18, <1>19, <1>20, <1>21, <1>22, <1>23, <1>24, <1>25, <1>26, <1>27, <1>28, <1>29, <1>30, <1>31,
     <1>32, <1>33, <1>34, <1>35, <1>36, <1>37 DEF ConversationNext

\* Every step keeps the types of the messages and of the sidebar.
LEMMA LogsTypedStep ==
  ASSUME ConversationTyped, [ConversationNext]_conversationVars PROVE LogsTyped'
<1>1. ASSUME NEW p \in Thread \cup {NoThread}, OpenChat(p) PROVE LogsTyped'
  BY <1>1 DEF OpenChat, Moves, LogsTyped, ConversationTyped
<1>2. ASSUME Type PROVE LogsTyped'
  BY <1>2 DEF Type, LogsTyped, ConversationTyped
<1>3. ASSUME SaveDraft PROVE LogsTyped'
  BY <1>3 DEF SaveDraft, Writes, LogsTyped, ConversationTyped
<1>4. ASSUME Submit PROVE LogsTyped'
  BY <1>4 DEF Submit, Starts, Moves, LogsTyped, ConversationTyped
<1>5. ASSUME ClearChat PROVE LogsTyped'
  BY <1>5 DEF ClearChat, Starts, Moves, LogsTyped, ConversationTyped
<1>6. ASSUME Archive PROVE LogsTyped'
  BY <1>6 DEF Archive, Writes, Moves, LogsTyped, ConversationTyped
<1>7. ASSUME ReloadPage PROVE LogsTyped'
  BY <1>7 DEF ReloadPage, Moves, LogsTyped, ConversationTyped
<1>8. ASSUME Verify PROVE LogsTyped'
  BY <1>8 DEF Verify, Mark, Writes, Moves, LogsTyped, ConversationTyped
<1>9. ASSUME TogglePin PROVE LogsTyped'
  BY <1>9 DEF TogglePin, Mark, Writes, Moves, LogsTyped, ConversationTyped
<1>10. ASSUME SendFile PROVE LogsTyped'
  BY <1>10 DEF SendFile, Starts, Moves, LogsTyped, ConversationTyped
<1>11. ASSUME ExportBackup PROVE LogsTyped'
  BY <1>11 DEF ExportBackup, Moves, LogsTyped, ConversationTyped
<1>12. ASSUME ImportBackup PROVE LogsTyped'
  BY <1>12, ConversationAssumption DEF ImportBackup, Moves, LogsTyped, ConversationTyped, JobsTyped, JobTyped,
     Work, Message, ComposerTyped, CopyTyped, Form
<1>13. ASSUME NEW p \in Thread, Arrives(p) PROVE LogsTyped'
  BY <1>13, ConversationAssumption DEF Arrives, Comes, Starts, Logs, Moves, LogsTyped, ConversationTyped,
     JobsTyped, JobTyped, Work, Message, ComposerTyped, CopyTyped, Form
<1>14. ASSUME NEW p \in Thread, SentElsewhere(p) PROVE LogsTyped'
  BY <1>14, ConversationAssumption DEF SentElsewhere, Comes, Starts, Logs, Moves, LogsTyped,
     ConversationTyped, JobsTyped, JobTyped, Work, Message, ComposerTyped, CopyTyped, Form
<1>15. ASSUME NEW p \in Thread, Touch(p) PROVE LogsTyped'
  BY <1>15 DEF Touch, Starts, Moves, LogsTyped, ConversationTyped
<1>16. ASSUME NEW p \in Thread, NEW m \in log[p], EditEnvelope(p, m) PROVE LogsTyped'
  BY <1>16, ConversationAssumption DEF EditEnvelope, RevisedByPeer, Alters, Starts, Logs, Moves, LogsTyped,
     ConversationTyped, JobsTyped, JobTyped, Work, Message, ComposerTyped, CopyTyped, Form
<1>17. ASSUME NEW p \in Thread, NEW m \in log[p], DeleteEnvelope(p, m) PROVE LogsTyped'
  BY <1>17, ConversationAssumption DEF DeleteEnvelope, RevisedByPeer, Alters, Starts, Logs, Moves, LogsTyped,
     ConversationTyped, JobsTyped, JobTyped, Work, Message, ComposerTyped, CopyTyped, Form
<1>18. ASSUME NEW p \in Thread, NEW m \in log[p], p = open, ReadMessage(m) PROVE LogsTyped'
  BY <1>18, ConversationAssumption DEF ReadMessage, Starts, Logs, Moves, LogsTyped, ConversationTyped,
     JobsTyped, JobTyped, Work, Message
<1>19. ASSUME NEW p \in Thread, NEW m \in log[p], p = open, SendEdit(m) PROVE LogsTyped'
  BY <1>19 DEF SendEdit, Revise, Starts, Moves, LogsTyped, ConversationTyped
<1>20. ASSUME NEW p \in Thread, NEW m \in log[p], p = open, SendDelete(m) PROVE LogsTyped'
  BY <1>20 DEF SendDelete, Revise, Starts, Moves, LogsTyped, ConversationTyped
<1>21. ASSUME NEW p \in Thread, PinEnvelope(p) PROVE LogsTyped'
  BY <1>21 DEF PinEnvelope, Mark, Writes, Moves, LogsTyped, ConversationTyped
<1>22. ASSUME NEW p \in Thread, Refresh(p) PROVE LogsTyped'
  BY <1>22 DEF Refresh, Rewrite, Starts, Moves, LogsTyped, ConversationTyped
<1>23. ASSUME NEW p \in Thread, Reconcile(p) PROVE LogsTyped'
  BY <1>23 DEF Reconcile, Rewrite, Starts, Moves, LogsTyped, ConversationTyped
<1>24. ASSUME NEW j \in jobs, SubmitFails(j) PROVE LogsTyped'
  BY <1>24 DEF SubmitFails, JobEnds, LogsTyped, ConversationTyped
<1>25. ASSUME NEW j \in jobs, StoreSent(j) PROVE LogsTyped'
  BY <1>25, ConversationAssumption DEF StoreSent, Logs, Goes, LogsTyped, ConversationTyped, JobsTyped,
     JobTyped, Work, Message, ComposerTyped, CopyTyped, Form
<1>26. ASSUME NEW j \in jobs, ForgetDraft(j) PROVE LogsTyped'
  BY <1>26 DEF ForgetDraft, Writes, Goes, LogsTyped, ConversationTyped
<1>27. ASSUME NEW j \in jobs, ClearInput(j) PROVE LogsTyped'
  BY <1>27 DEF ClearInput, JobEnds, LogsTyped, ConversationTyped
<1>28. ASSUME NEW j \in jobs, CountThread(j) PROVE LogsTyped'
  BY <1>28 DEF CountThread, Goes, LogsTyped, ConversationTyped
<1>29. ASSUME NEW j \in jobs, PutStat(j) PROVE LogsTyped'
  BY <1>29, ConversationAssumption DEF PutStat, JobEnds, Goes, LogsTyped, ConversationTyped, JobsTyped,
     JobTyped, Work, Message
<1>30. ASSUME NEW j \in jobs, WipeListed(j) PROVE LogsTyped'
  BY <1>30 DEF WipeListed, Logs, Goes, LogsTyped, ConversationTyped
<1>31. ASSUME NEW j \in jobs, DropStat(j) PROVE LogsTyped'
  <2>1. QED
    BY <1>31, CountOfNone DEF DropStat, JobEnds, ConversationTyped, LogsTyped
<1>32. ASSUME NEW j \in jobs, GetCard(j) PROVE LogsTyped'
  BY <1>32 DEF GetCard, Goes, LogsTyped, ConversationTyped
<1>33. ASSUME NEW j \in jobs, PutCard(j) PROVE LogsTyped'
  BY <1>33 DEF PutCard, Writes, JobEnds, Goes, LogsTyped, ConversationTyped
<1>34. ASSUME NEW j \in jobs, Revised(j) PROVE LogsTyped'
  BY <1>34, ConversationAssumption DEF Revised, Alters, Logs, JobEnds, Goes, LogsTyped, ConversationTyped,
     JobsTyped, JobTyped, Work, Message
<1>35. ASSUME NEW j \in jobs, ListThread(j) PROVE LogsTyped'
  BY <1>35 DEF ListThread, Goes, LogsTyped, ConversationTyped
<1>36. ASSUME NEW j \in jobs, ResetStat(j) PROVE LogsTyped'
  <2>1. QED
    BY <1>36, CountOfNone DEF ResetStat, Goes, ConversationTyped, LogsTyped
<1>37. ASSUME UNCHANGED conversationVars PROVE LogsTyped'
  BY <1>37 DEF conversationVars, LogsTyped, ConversationTyped
<1>38. QED
  BY <1>1, <1>2, <1>3, <1>4, <1>5, <1>6, <1>7, <1>8, <1>9, <1>10, <1>11, <1>12, <1>13, <1>14, <1>15, <1>16,
     <1>17, <1>18, <1>19, <1>20, <1>21, <1>22, <1>23, <1>24, <1>25, <1>26, <1>27, <1>28, <1>29, <1>30, <1>31,
     <1>32, <1>33, <1>34, <1>35, <1>36, <1>37 DEF ConversationNext

\* Every step keeps the types of what the model remembers of a chat.
LEMMA FlagsTypedStep ==
  ASSUME ConversationTyped, [ConversationNext]_conversationVars PROVE FlagsTyped'
<1>1. ASSUME NEW p \in Thread \cup {NoThread}, OpenChat(p) PROVE FlagsTyped'
  BY <1>1 DEF OpenChat, Moves, FlagsTyped, ConversationTyped
<1>2. ASSUME Type PROVE FlagsTyped'
  BY <1>2 DEF Type, FlagsTyped, ConversationTyped
<1>3. ASSUME SaveDraft PROVE FlagsTyped'
  BY <1>3 DEF SaveDraft, Writes, FlagsTyped, ConversationTyped
<1>4. ASSUME Submit PROVE FlagsTyped'
  BY <1>4 DEF Submit, Starts, Moves, FlagsTyped, ConversationTyped
<1>5. ASSUME ClearChat PROVE FlagsTyped'
  BY <1>5 DEF ClearChat, Starts, Moves, FlagsTyped, ConversationTyped
<1>6. ASSUME Archive PROVE FlagsTyped'
  BY <1>6 DEF Archive, Writes, Moves, FlagsTyped, ConversationTyped
<1>7. ASSUME ReloadPage PROVE FlagsTyped'
  BY <1>7 DEF ReloadPage, Moves, FlagsTyped, ConversationTyped
<1>8. ASSUME Verify PROVE FlagsTyped'
  BY <1>8 DEF Verify, Mark, Writes, Moves, FlagsTyped, ConversationTyped
<1>9. ASSUME TogglePin PROVE FlagsTyped'
  BY <1>9 DEF TogglePin, Mark, Writes, Moves, FlagsTyped, ConversationTyped
<1>10. ASSUME SendFile PROVE FlagsTyped'
  BY <1>10 DEF SendFile, Starts, Moves, FlagsTyped, ConversationTyped
<1>11. ASSUME ExportBackup PROVE FlagsTyped'
  BY <1>11 DEF ExportBackup, Moves, FlagsTyped, ConversationTyped
<1>12. ASSUME ImportBackup PROVE FlagsTyped'
  BY <1>12 DEF ImportBackup, Moves, FlagsTyped, ConversationTyped
<1>13. ASSUME NEW p \in Thread, Arrives(p) PROVE FlagsTyped'
  BY <1>13 DEF Arrives, Comes, Starts, Logs, Moves, FlagsTyped, ConversationTyped
<1>14. ASSUME NEW p \in Thread, SentElsewhere(p) PROVE FlagsTyped'
  BY <1>14 DEF SentElsewhere, Comes, Starts, Logs, Moves, FlagsTyped, ConversationTyped
<1>15. ASSUME NEW p \in Thread, Touch(p) PROVE FlagsTyped'
  BY <1>15 DEF Touch, Starts, Moves, FlagsTyped, ConversationTyped
<1>16. ASSUME NEW p \in Thread, NEW m \in log[p], EditEnvelope(p, m) PROVE FlagsTyped'
  BY <1>16 DEF EditEnvelope, RevisedByPeer, Alters, Starts, Logs, Moves, FlagsTyped, ConversationTyped
<1>17. ASSUME NEW p \in Thread, NEW m \in log[p], DeleteEnvelope(p, m) PROVE FlagsTyped'
  BY <1>17 DEF DeleteEnvelope, RevisedByPeer, Alters, Starts, Logs, Moves, FlagsTyped, ConversationTyped
<1>18. ASSUME NEW p \in Thread, NEW m \in log[p], p = open, ReadMessage(m) PROVE FlagsTyped'
  BY <1>18 DEF ReadMessage, Starts, Logs, Moves, FlagsTyped, ConversationTyped
<1>19. ASSUME NEW p \in Thread, NEW m \in log[p], p = open, SendEdit(m) PROVE FlagsTyped'
  BY <1>19 DEF SendEdit, Revise, Starts, Moves, FlagsTyped, ConversationTyped
<1>20. ASSUME NEW p \in Thread, NEW m \in log[p], p = open, SendDelete(m) PROVE FlagsTyped'
  BY <1>20 DEF SendDelete, Revise, Starts, Moves, FlagsTyped, ConversationTyped
<1>21. ASSUME NEW p \in Thread, PinEnvelope(p) PROVE FlagsTyped'
  BY <1>21 DEF PinEnvelope, Mark, Writes, Moves, FlagsTyped, ConversationTyped
<1>22. ASSUME NEW p \in Thread, Refresh(p) PROVE FlagsTyped'
  BY <1>22 DEF Refresh, Rewrite, Starts, Moves, FlagsTyped, ConversationTyped
<1>23. ASSUME NEW p \in Thread, Reconcile(p) PROVE FlagsTyped'
  BY <1>23 DEF Reconcile, Rewrite, Starts, Moves, FlagsTyped, ConversationTyped
<1>24. ASSUME NEW j \in jobs, SubmitFails(j) PROVE FlagsTyped'
  BY <1>24 DEF SubmitFails, JobEnds, FlagsTyped, ConversationTyped
<1>25. ASSUME NEW j \in jobs, StoreSent(j) PROVE FlagsTyped'
  BY <1>25 DEF StoreSent, Logs, Goes, FlagsTyped, ConversationTyped
<1>26. ASSUME NEW j \in jobs, ForgetDraft(j) PROVE FlagsTyped'
  BY <1>26 DEF ForgetDraft, Writes, Goes, FlagsTyped, ConversationTyped
<1>27. ASSUME NEW j \in jobs, ClearInput(j) PROVE FlagsTyped'
  BY <1>27 DEF ClearInput, JobEnds, FlagsTyped, ConversationTyped
<1>28. ASSUME NEW j \in jobs, CountThread(j) PROVE FlagsTyped'
  BY <1>28 DEF CountThread, Goes, FlagsTyped, ConversationTyped
<1>29. ASSUME NEW j \in jobs, PutStat(j) PROVE FlagsTyped'
  BY <1>29 DEF PutStat, JobEnds, Goes, FlagsTyped, ConversationTyped
<1>30. ASSUME NEW j \in jobs, WipeListed(j) PROVE FlagsTyped'
  BY <1>30 DEF WipeListed, Logs, Goes, FlagsTyped, ConversationTyped
<1>31. ASSUME NEW j \in jobs, DropStat(j) PROVE FlagsTyped'
  BY <1>31 DEF DropStat, JobEnds, FlagsTyped, ConversationTyped
<1>32. ASSUME NEW j \in jobs, GetCard(j) PROVE FlagsTyped'
  BY <1>32 DEF GetCard, Goes, FlagsTyped, ConversationTyped
<1>33. ASSUME NEW j \in jobs, PutCard(j) PROVE FlagsTyped'
  BY <1>33 DEF PutCard, Writes, JobEnds, Goes, FlagsTyped, ConversationTyped
<1>34. ASSUME NEW j \in jobs, Revised(j) PROVE FlagsTyped'
  <2>1. bent' = bent \/ \E ms : Logs(j.peer, ms, {j})
    BY <1>34 DEF Revised, Alters
  <2>2. bent' \in [Thread -> BOOLEAN]
    BY <2>1 DEF Logs, ConversationTyped, FlagsTyped
  <2>3. hasty' = hasty /\ torn' = torn
    BY <1>34 DEF Revised
  <2>4. QED
    BY <2>2, <2>3 DEF ConversationTyped, FlagsTyped
<1>35. ASSUME NEW j \in jobs, ListThread(j) PROVE FlagsTyped'
  BY <1>35 DEF ListThread, Goes, FlagsTyped, ConversationTyped
<1>36. ASSUME NEW j \in jobs, ResetStat(j) PROVE FlagsTyped'
  BY <1>36 DEF ResetStat, Goes, FlagsTyped, ConversationTyped
<1>37. ASSUME UNCHANGED conversationVars PROVE FlagsTyped'
  BY <1>37 DEF conversationVars, FlagsTyped, ConversationTyped
<1>38. QED
  BY <1>1, <1>2, <1>3, <1>4, <1>5, <1>6, <1>7, <1>8, <1>9, <1>10, <1>11, <1>12, <1>13, <1>14, <1>15, <1>16,
     <1>17, <1>18, <1>19, <1>20, <1>21, <1>22, <1>23, <1>24, <1>25, <1>26, <1>27, <1>28, <1>29, <1>30, <1>31,
     <1>32, <1>33, <1>34, <1>35, <1>36, <1>37 DEF ConversationNext

\* Every step keeps the type of the backup.
LEMMA CopyTypedStep ==
  ASSUME ConversationTyped, [ConversationNext]_conversationVars PROVE CopyTyped'
<1>1. ASSUME NEW p \in Thread \cup {NoThread}, OpenChat(p) PROVE CopyTyped'
  BY <1>1 DEF OpenChat, Moves, CopyTyped, ConversationTyped
<1>2. ASSUME Type PROVE CopyTyped'
  BY <1>2 DEF Type, CopyTyped, ConversationTyped
<1>3. ASSUME SaveDraft PROVE CopyTyped'
  BY <1>3 DEF SaveDraft, Writes, CopyTyped, ConversationTyped
<1>4. ASSUME Submit PROVE CopyTyped'
  BY <1>4 DEF Submit, Starts, Moves, CopyTyped, ConversationTyped
<1>5. ASSUME ClearChat PROVE CopyTyped'
  BY <1>5 DEF ClearChat, Starts, Moves, CopyTyped, ConversationTyped
<1>6. ASSUME Archive PROVE CopyTyped'
  BY <1>6 DEF Archive, Writes, Moves, CopyTyped, ConversationTyped
<1>7. ASSUME ReloadPage PROVE CopyTyped'
  BY <1>7 DEF ReloadPage, Moves, CopyTyped, ConversationTyped
<1>8. ASSUME Verify PROVE CopyTyped'
  BY <1>8 DEF Verify, Mark, Writes, Moves, CopyTyped, ConversationTyped
<1>9. ASSUME TogglePin PROVE CopyTyped'
  BY <1>9 DEF TogglePin, Mark, Writes, Moves, CopyTyped, ConversationTyped
<1>10. ASSUME SendFile PROVE CopyTyped'
  BY <1>10 DEF SendFile, Starts, Moves, CopyTyped, ConversationTyped
<1>11. ASSUME ExportBackup PROVE CopyTyped'
  BY <1>11 DEF ExportBackup, Moves, CopyTyped, ConversationTyped, RowsOfChats, LogsTyped
<1>12. ASSUME ImportBackup PROVE CopyTyped'
  BY <1>12 DEF ImportBackup, Moves, CopyTyped, ConversationTyped
<1>13. ASSUME NEW p \in Thread, Arrives(p) PROVE CopyTyped'
  BY <1>13 DEF Arrives, Comes, Starts, Logs, Moves, CopyTyped, ConversationTyped
<1>14. ASSUME NEW p \in Thread, SentElsewhere(p) PROVE CopyTyped'
  BY <1>14 DEF SentElsewhere, Comes, Starts, Logs, Moves, CopyTyped, ConversationTyped
<1>15. ASSUME NEW p \in Thread, Touch(p) PROVE CopyTyped'
  BY <1>15 DEF Touch, Starts, Moves, CopyTyped, ConversationTyped
<1>16. ASSUME NEW p \in Thread, NEW m \in log[p], EditEnvelope(p, m) PROVE CopyTyped'
  BY <1>16 DEF EditEnvelope, RevisedByPeer, Alters, Starts, Logs, Moves, CopyTyped, ConversationTyped
<1>17. ASSUME NEW p \in Thread, NEW m \in log[p], DeleteEnvelope(p, m) PROVE CopyTyped'
  BY <1>17 DEF DeleteEnvelope, RevisedByPeer, Alters, Starts, Logs, Moves, CopyTyped, ConversationTyped
<1>18. ASSUME NEW p \in Thread, NEW m \in log[p], p = open, ReadMessage(m) PROVE CopyTyped'
  BY <1>18 DEF ReadMessage, Starts, Logs, Moves, CopyTyped, ConversationTyped
<1>19. ASSUME NEW p \in Thread, NEW m \in log[p], p = open, SendEdit(m) PROVE CopyTyped'
  BY <1>19 DEF SendEdit, Revise, Starts, Moves, CopyTyped, ConversationTyped
<1>20. ASSUME NEW p \in Thread, NEW m \in log[p], p = open, SendDelete(m) PROVE CopyTyped'
  BY <1>20 DEF SendDelete, Revise, Starts, Moves, CopyTyped, ConversationTyped
<1>21. ASSUME NEW p \in Thread, PinEnvelope(p) PROVE CopyTyped'
  BY <1>21 DEF PinEnvelope, Mark, Writes, Moves, CopyTyped, ConversationTyped
<1>22. ASSUME NEW p \in Thread, Refresh(p) PROVE CopyTyped'
  BY <1>22 DEF Refresh, Rewrite, Starts, Moves, CopyTyped, ConversationTyped
<1>23. ASSUME NEW p \in Thread, Reconcile(p) PROVE CopyTyped'
  BY <1>23 DEF Reconcile, Rewrite, Starts, Moves, CopyTyped, ConversationTyped
<1>24. ASSUME NEW j \in jobs, SubmitFails(j) PROVE CopyTyped'
  BY <1>24 DEF SubmitFails, JobEnds, CopyTyped, ConversationTyped
<1>25. ASSUME NEW j \in jobs, StoreSent(j) PROVE CopyTyped'
  BY <1>25 DEF StoreSent, Logs, Goes, CopyTyped, ConversationTyped
<1>26. ASSUME NEW j \in jobs, ForgetDraft(j) PROVE CopyTyped'
  BY <1>26 DEF ForgetDraft, Writes, Goes, CopyTyped, ConversationTyped
<1>27. ASSUME NEW j \in jobs, ClearInput(j) PROVE CopyTyped'
  BY <1>27 DEF ClearInput, JobEnds, CopyTyped, ConversationTyped
<1>28. ASSUME NEW j \in jobs, CountThread(j) PROVE CopyTyped'
  BY <1>28 DEF CountThread, Goes, CopyTyped, ConversationTyped
<1>29. ASSUME NEW j \in jobs, PutStat(j) PROVE CopyTyped'
  BY <1>29 DEF PutStat, JobEnds, Goes, CopyTyped, ConversationTyped
<1>30. ASSUME NEW j \in jobs, WipeListed(j) PROVE CopyTyped'
  BY <1>30 DEF WipeListed, Logs, Goes, CopyTyped, ConversationTyped
<1>31. ASSUME NEW j \in jobs, DropStat(j) PROVE CopyTyped'
  BY <1>31 DEF DropStat, JobEnds, CopyTyped, ConversationTyped
<1>32. ASSUME NEW j \in jobs, GetCard(j) PROVE CopyTyped'
  BY <1>32 DEF GetCard, Goes, CopyTyped, ConversationTyped
<1>33. ASSUME NEW j \in jobs, PutCard(j) PROVE CopyTyped'
  BY <1>33 DEF PutCard, Writes, JobEnds, Goes, CopyTyped, ConversationTyped
<1>34. ASSUME NEW j \in jobs, Revised(j) PROVE CopyTyped'
  BY <1>34 DEF Revised, Alters, Logs, JobEnds, Goes, CopyTyped, ConversationTyped
<1>35. ASSUME NEW j \in jobs, ListThread(j) PROVE CopyTyped'
  BY <1>35 DEF ListThread, Goes, CopyTyped, ConversationTyped
<1>36. ASSUME NEW j \in jobs, ResetStat(j) PROVE CopyTyped'
  BY <1>36 DEF ResetStat, Goes, CopyTyped, ConversationTyped
<1>37. ASSUME UNCHANGED conversationVars PROVE CopyTyped'
  BY <1>37 DEF conversationVars, CopyTyped, ConversationTyped
<1>38. QED
  BY <1>1, <1>2, <1>3, <1>4, <1>5, <1>6, <1>7, <1>8, <1>9, <1>10, <1>11, <1>12, <1>13, <1>14, <1>15, <1>16,
     <1>17, <1>18, <1>19, <1>20, <1>21, <1>22, <1>23, <1>24, <1>25, <1>26, <1>27, <1>28, <1>29, <1>30, <1>31,
     <1>32, <1>33, <1>34, <1>35, <1>36, <1>37 DEF ConversationNext

\* Every step keeps the handlers' types, and what their next steps need.
LEMMA JobsTypedStep ==
  ASSUME ConversationTyped, [ConversationNext]_conversationVars PROVE JobsTyped'
<1>1. ASSUME NEW p \in Thread \cup {NoThread}, OpenChat(p) PROVE JobsTyped'
  BY <1>1 DEF OpenChat, Moves, JobsTyped, ConversationTyped
<1>2. ASSUME Type PROVE JobsTyped'
  BY <1>2 DEF Type, JobsTyped, ConversationTyped
<1>3. ASSUME SaveDraft PROVE JobsTyped'
  BY <1>3 DEF SaveDraft, Writes, JobsTyped, ConversationTyped
<1>4. ASSUME Submit PROVE JobsTyped'
  <2> DEFINE g == Job("send", open, "seal")
             v == Input(open)
             h == [g EXCEPT !.text = v]
  <2>1. jobs' \subseteq jobs \cup {h}
    BY <1>4 DEF Submit, Starts
  <2>2. open \in Thread /\ moves \in Nat
    BY <1>4 DEF ConversationTyped, ComposerTyped, Submit
  <2>3. g \in Work /\ g.kind = "send" /\ g.step = "seal"
    BY <2>2, JobMade DEF Kind, Steps
  <2>4. v \in 0 .. MaxTexts /\ v # 0
    BY <1>4, <2>2 DEF Submit, Input, ConversationTyped, ComposerTyped, RowsOfChats, Row
  <2> HIDE DEF g, v
  <2>5. h \in Work
    BY <2>3, <2>4 DEF Work
  <2>6. h.kind = "send" /\ h.step = "seal" /\ h.text = v
    BY <2>3 DEF Work
  <2>7. JobTyped(h)
    BY <2>4, <2>5, <2>6 DEF JobTyped
  <2>8. QED
    BY <2>1, <2>7, JobAdded DEF ConversationTyped
<1>5. ASSUME ClearChat PROVE JobsTyped'
  <2> DEFINE g == Job("clear", open, "wipe")
             v == log[open]
             h == [g EXCEPT !.ids = v]
  <2>1. jobs' \subseteq jobs \cup {h}
    BY <1>5 DEF ClearChat, Starts
  <2>2. open \in Thread /\ moves \in Nat
    BY <1>5 DEF ConversationTyped, ComposerTyped, ClearChat
  <2>3. g \in Work /\ g.kind = "clear" /\ g.step = "wipe"
    BY <2>2, JobMade DEF Kind, Steps
  <2>4. v \in SUBSET Message
    BY <2>2 DEF ConversationTyped, LogsTyped
  <2> HIDE DEF g, v
  <2>5. h \in Work
    BY <2>3, <2>4 DEF Work
  <2>6. h.kind = "clear" /\ h.step = "wipe" /\ h.ids = v
    BY <2>3 DEF Work
  <2>7. JobTyped(h)
    BY <2>4, <2>5, <2>6 DEF JobTyped
  <2>8. QED
    BY <2>1, <2>7, JobAdded DEF ConversationTyped
<1>6. ASSUME Archive PROVE JobsTyped'
  BY <1>6 DEF Archive, Writes, Moves, JobsTyped, ConversationTyped
<1>7. ASSUME ReloadPage PROVE JobsTyped'
  BY <1>7 DEF ReloadPage, Moves, JobsTyped, ConversationTyped
<1>8. ASSUME Verify PROVE JobsTyped'
  BY <1>8 DEF Verify, Mark, Writes, Moves, JobsTyped, ConversationTyped
<1>9. ASSUME TogglePin PROVE JobsTyped'
  BY <1>9 DEF TogglePin, Mark, Writes, Moves, JobsTyped, ConversationTyped
<1>10. ASSUME SendFile PROVE JobsTyped'
  <2> DEFINE g == Job("file", open, "seal")
             v == texts + 1
             h == [g EXCEPT !.text = v]
  <2>1. jobs' \subseteq jobs \cup {h}
    BY <1>10 DEF SendFile, Starts
  <2>2. open \in Thread /\ moves \in Nat
    BY <1>10 DEF ConversationTyped, ComposerTyped, SendFile
  <2>3. g \in Work /\ g.kind = "file" /\ g.step = "seal"
    BY <2>2, JobMade DEF Kind, Steps
  <2>4. v \in 0 .. MaxTexts /\ v # 0
    BY <1>10, ConversationAssumption DEF SendFile, ConversationTyped, ComposerTyped
  <2> HIDE DEF g, v
  <2>5. h \in Work
    BY <2>3, <2>4 DEF Work
  <2>6. h.kind = "file" /\ h.step = "seal" /\ h.text = v
    BY <2>3 DEF Work
  <2>7. JobTyped(h)
    BY <2>4, <2>5, <2>6 DEF JobTyped
  <2>8. QED
    BY <2>1, <2>7, JobAdded DEF ConversationTyped
<1>11. ASSUME ExportBackup PROVE JobsTyped'
  BY <1>11 DEF ExportBackup, Moves, JobsTyped, ConversationTyped
<1>12. ASSUME ImportBackup PROVE JobsTyped'
  <2>1. ASSUME NEW k \in jobs PROVE JobTyped([k EXCEPT !.ids = {}])
    <3>1. JobTyped(k)
      BY DEF ConversationTyped, JobsTyped
    <3> DEFINE h == [k EXCEPT !.ids = {}]
    <3>2. h \in Work /\ h.kind = k.kind /\ h.step = k.step /\ h.text = k.text
      BY <3>1 DEF JobTyped, Work
    <3> HIDE DEF h
    <3>3. JobTyped(h)
      BY <3>1, <3>2 DEF JobTyped
    <3>4. QED
      BY <3>3 DEF h
  <2>2. ASSUME NEW p \in Thread PROVE JobTyped(Job("import", p, "list"))
    BY JobMade DEF JobTyped, Kind, Steps, ConversationTyped, ComposerTyped
  <2>3. \A h \in jobs' : \/ h \in jobs \/ \E k \in jobs : h = [k EXCEPT !.ids = {}]
                         \/ \E p \in Thread : h = Job("import", p, "list")
    BY <1>12 DEF ImportBackup
  <2>4. QED
    BY <2>1, <2>2, <2>3 DEF ConversationTyped, JobsTyped
<1>13. ASSUME NEW p \in Thread, Arrives(p) PROVE JobsTyped'
  <2> DEFINE h == Job("arrive", p, "count")
  <2>1. jobs' \subseteq jobs \cup {h}
    BY <1>13 DEF Arrives, Comes, Starts
  <2>2. p \in Thread /\ moves \in Nat
    BY <1>13 DEF ConversationTyped, ComposerTyped
  <2>3. JobTyped(h)
    BY <2>2, JobMade DEF JobTyped, Kind, Steps
  <2>4. QED
    BY <2>1, <2>3, JobAdded DEF ConversationTyped
<1>14. ASSUME NEW p \in Thread, SentElsewhere(p) PROVE JobsTyped'
  <2> DEFINE h == Job("arrive", p, "count")
  <2>1. jobs' \subseteq jobs \cup {h}
    BY <1>14 DEF SentElsewhere, Comes, Starts
  <2>2. p \in Thread /\ moves \in Nat
    BY <1>14 DEF ConversationTyped, ComposerTyped
  <2>3. JobTyped(h)
    BY <2>2, JobMade DEF JobTyped, Kind, Steps
  <2>4. QED
    BY <2>1, <2>3, JobAdded DEF ConversationTyped
<1>15. ASSUME NEW p \in Thread, Touch(p) PROVE JobsTyped'
  <2> DEFINE h == Job("read", p, "count")
  <2>1. jobs' \subseteq jobs \cup {h}
    BY <1>15 DEF Touch, Starts
  <2>2. p \in Thread /\ moves \in Nat
    BY <1>15 DEF ConversationTyped, ComposerTyped
  <2>3. JobTyped(h)
    BY <2>2, JobMade DEF JobTyped, Kind, Steps
  <2>4. QED
    BY <2>1, <2>3, JobAdded DEF ConversationTyped
<1>16. ASSUME NEW p \in Thread, NEW m \in log[p], EditEnvelope(p, m) PROVE JobsTyped'
  <2> DEFINE h == Job("read", p, "count")
  <2>1. jobs' \subseteq jobs \cup {h}
    BY <1>16 DEF EditEnvelope, RevisedByPeer, Starts
  <2>2. p \in Thread /\ moves \in Nat
    BY <1>16 DEF ConversationTyped, ComposerTyped
  <2>3. JobTyped(h)
    BY <2>2, JobMade DEF JobTyped, Kind, Steps
  <2>4. QED
    BY <2>1, <2>3, JobAdded DEF ConversationTyped
<1>17. ASSUME NEW p \in Thread, NEW m \in log[p], DeleteEnvelope(p, m) PROVE JobsTyped'
  <2> DEFINE h == Job("read", p, "count")
  <2>1. jobs' \subseteq jobs \cup {h}
    BY <1>17 DEF DeleteEnvelope, RevisedByPeer, Starts
  <2>2. p \in Thread /\ moves \in Nat
    BY <1>17 DEF ConversationTyped, ComposerTyped
  <2>3. JobTyped(h)
    BY <2>2, JobMade DEF JobTyped, Kind, Steps
  <2>4. QED
    BY <2>1, <2>3, JobAdded DEF ConversationTyped
<1>18. ASSUME NEW p \in Thread, NEW m \in log[p], p = open, ReadMessage(m) PROVE JobsTyped'
  <2> DEFINE h == Job("read", open, "count")
  <2>1. jobs' \subseteq jobs \cup {h}
    BY <1>18 DEF ReadMessage, Starts
  <2>2. open \in Thread /\ moves \in Nat
    BY <1>18 DEF ConversationTyped, ComposerTyped
  <2>3. JobTyped(h)
    BY <2>2, JobMade DEF JobTyped, Kind, Steps
  <2>4. QED
    BY <2>1, <2>3, JobAdded DEF ConversationTyped
<1>19. ASSUME NEW p \in Thread, NEW m \in log[p], p = open, SendEdit(m) PROVE JobsTyped'
  <2> DEFINE g == Job("edited", open, "alter")
             v == m.id
             h == [g EXCEPT !.text = v]
  <2>1. jobs' \subseteq jobs \cup {h}
    BY <1>19 DEF SendEdit, Revise, Starts
  <2>2. open \in Thread /\ moves \in Nat
    BY <1>19 DEF ConversationTyped, ComposerTyped, SendEdit, Revise
  <2>3. g \in Work /\ g.kind = "edited" /\ g.step = "alter"
    BY <2>2, JobMade DEF Kind, Steps
  <2>4. v \in 0 .. MaxTexts
    <3>1. m \in Message
      BY <2>2 DEF ConversationTyped, LogsTyped
    <3>2. QED
      BY <3>1, ConversationAssumption DEF Message
  <2> HIDE DEF g, v
  <2>5. h \in Work
    BY <2>3, <2>4 DEF Work
  <2>6. h.kind = "edited" /\ h.step = "alter" /\ h.text = v
    BY <2>3 DEF Work
  <2>7. JobTyped(h)
    BY <2>4, <2>5, <2>6 DEF JobTyped, Form
  <2>8. QED
    BY <2>1, <2>7, JobAdded DEF ConversationTyped
<1>20. ASSUME NEW p \in Thread, NEW m \in log[p], p = open, SendDelete(m) PROVE JobsTyped'
  <2> DEFINE g == Job("deleted", open, "alter")
             v == m.id
             h == [g EXCEPT !.text = v]
  <2>1. jobs' \subseteq jobs \cup {h}
    BY <1>20 DEF SendDelete, Revise, Starts
  <2>2. open \in Thread /\ moves \in Nat
    BY <1>20 DEF ConversationTyped, ComposerTyped, SendDelete, Revise
  <2>3. g \in Work /\ g.kind = "deleted" /\ g.step = "alter"
    BY <2>2, JobMade DEF Kind, Steps
  <2>4. v \in 0 .. MaxTexts
    <3>1. m \in Message
      BY <2>2 DEF ConversationTyped, LogsTyped
    <3>2. QED
      BY <3>1, ConversationAssumption DEF Message
  <2> HIDE DEF g, v
  <2>5. h \in Work
    BY <2>3, <2>4 DEF Work
  <2>6. h.kind = "deleted" /\ h.step = "alter" /\ h.text = v
    BY <2>3 DEF Work
  <2>7. JobTyped(h)
    BY <2>4, <2>5, <2>6 DEF JobTyped, Form
  <2>8. QED
    BY <2>1, <2>7, JobAdded DEF ConversationTyped
<1>21. ASSUME NEW p \in Thread, PinEnvelope(p) PROVE JobsTyped'
  BY <1>21 DEF PinEnvelope, Mark, Writes, Moves, JobsTyped, ConversationTyped
<1>22. ASSUME NEW p \in Thread, Refresh(p) PROVE JobsTyped'
  <2> DEFINE h == Job("refresh", p, "get")
  <2>1. jobs' \subseteq jobs \cup {h}
    BY <1>22 DEF Refresh, Rewrite, Starts
  <2>2. p \in Thread /\ moves \in Nat
    BY <1>22 DEF ConversationTyped, ComposerTyped
  <2>3. JobTyped(h)
    BY <2>2, JobMade DEF JobTyped, Kind, Steps
  <2>4. QED
    BY <2>1, <2>3, JobAdded DEF ConversationTyped
<1>23. ASSUME NEW p \in Thread, Reconcile(p) PROVE JobsTyped'
  <2>0. PICK m \in log[p] : Rewrite(p, [Job("reconcile", p, "get") EXCEPT !.ids = {m}])
    BY <1>23 DEF Reconcile
  <2> DEFINE g == Job("reconcile", p, "get")
             v == {m}
             h == [g EXCEPT !.ids = v]
  <2>1. jobs' \subseteq jobs \cup {h}
    BY <2>0 DEF Rewrite, Starts
  <2>2. p \in Thread /\ moves \in Nat
    BY <1>23 DEF ConversationTyped, ComposerTyped
  <2>3. g \in Work /\ g.kind = "reconcile" /\ g.step = "get"
    BY <2>2, JobMade DEF Kind, Steps
  <2>4. v \in SUBSET Message
    BY <2>0 DEF ConversationTyped, LogsTyped
  <2> HIDE DEF g, v
  <2>5. h \in Work
    BY <2>3, <2>4 DEF Work
  <2>6. h.kind = "reconcile" /\ h.step = "get" /\ h.ids = v
    BY <2>3 DEF Work
  <2>7. JobTyped(h)
    BY <2>4, <2>5, <2>6 DEF JobTyped
  <2>8. QED
    BY <2>1, <2>7, JobAdded DEF ConversationTyped
<1>24. ASSUME NEW j \in jobs, SubmitFails(j) PROVE JobsTyped'
  BY <1>24 DEF SubmitFails, JobEnds, JobsTyped, ConversationTyped
<1>25. ASSUME NEW j \in jobs, StoreSent(j) PROVE JobsTyped'
  <2> DEFINE 
             h == [j EXCEPT !.step = "count"]
  <2>1. jobs' \subseteq jobs \cup {h}
    BY <1>25 DEF StoreSent, Goes, JobEnds
  <2>2. j \in Work
    BY DEF ConversationTyped, JobsTyped, JobTyped
  <2>4. h \in Work /\ h.kind = j.kind /\ h.step = "count"
    BY <2>2 DEF Work, Steps
  <2>5. JobTyped(h)
    BY <2>1, <2>4 DEF JobTyped
  <2>6. QED
    BY <2>1, <2>5, JobAdded DEF ConversationTyped
<1>26. ASSUME NEW j \in jobs, ForgetDraft(j) PROVE JobsTyped'
  <2> DEFINE 
             h == [j EXCEPT !.step = "clear"]
  <2>1. jobs' \subseteq jobs \cup {h} /\ j.step = "note"
    BY <1>26 DEF ForgetDraft, Goes, JobEnds
  <2>2. j \in Work
    BY DEF ConversationTyped, JobsTyped, JobTyped
  <2>4. h \in Work /\ h.kind = j.kind /\ h.step = "clear"
    BY <2>2 DEF Work, Steps
  <2>5. JobTyped(h)
    BY <2>1, <2>4 DEF JobTyped, ConversationTyped, JobsTyped
  <2>6. QED
    BY <2>1, <2>5, JobAdded DEF ConversationTyped
<1>27. ASSUME NEW j \in jobs, ClearInput(j) PROVE JobsTyped'
  BY <1>27 DEF ClearInput, JobEnds, JobsTyped, ConversationTyped
<1>28. ASSUME NEW j \in jobs, CountThread(j) PROVE JobsTyped'
  <2> DEFINE v == Summary(log[j.peer])
             h == [j EXCEPT !.step = "stat", !.seen = v]
  <2>1. jobs' \subseteq jobs \cup {h}
    BY <1>28 DEF CountThread, Goes, JobEnds
  <2>2. j \in Work
    BY DEF ConversationTyped, JobsTyped, JobTyped
  <2>3. v \in Count
    BY <2>2, SummaryTyped DEF Work, ConversationTyped, LogsTyped
  <2> HIDE DEF v
  <2>4. h \in Work /\ h.kind = j.kind /\ h.step = "stat"
    BY <2>2, <2>3 DEF Work, Steps
  <2>5. JobTyped(h)
    BY <2>1, <2>4 DEF JobTyped
  <2>6. QED
    BY <2>1, <2>5, JobAdded DEF ConversationTyped
<1>29. ASSUME NEW j \in jobs, PutStat(j) PROVE JobsTyped'
  <2> DEFINE 
             h == [j EXCEPT !.step = "get"]
  <2>1. jobs' \subseteq jobs \cup {h}
    BY <1>29 DEF PutStat, Goes, JobEnds
  <2>2. j \in Work
    BY DEF ConversationTyped, JobsTyped, JobTyped
  <2>4. h \in Work /\ h.kind = j.kind /\ h.step = "get"
    BY <2>2 DEF Work, Steps
  <2>5. JobTyped(h)
    BY <2>1, <2>4 DEF JobTyped
  <2>6. QED
    BY <2>1, <2>5, JobAdded DEF ConversationTyped
<1>30. ASSUME NEW j \in jobs, WipeListed(j) PROVE JobsTyped'
  <2> DEFINE 
             h == [j EXCEPT !.step = "drop"]
  <2>1. jobs' \subseteq jobs \cup {h}
    BY <1>30 DEF WipeListed, Goes, JobEnds
  <2>2. j \in Work
    BY DEF ConversationTyped, JobsTyped, JobTyped
  <2>4. h \in Work /\ h.kind = j.kind /\ h.step = "drop"
    BY <2>2 DEF Work, Steps
  <2>5. JobTyped(h)
    BY <2>1, <2>4 DEF JobTyped
  <2>6. QED
    BY <2>1, <2>5, JobAdded DEF ConversationTyped
<1>31. ASSUME NEW j \in jobs, DropStat(j) PROVE JobsTyped'
  BY <1>31 DEF DropStat, JobEnds, JobsTyped, ConversationTyped
<1>32. ASSUME NEW j \in jobs, GetCard(j) PROVE JobsTyped'
  <2> DEFINE v == card[j.peer]
             h == [j EXCEPT !.step = "put", !.row = v]
  <2>1. jobs' \subseteq jobs \cup {h}
    BY <1>32 DEF GetCard, Goes, JobEnds
  <2>2. j \in Work
    BY DEF ConversationTyped, JobsTyped, JobTyped
  <2>3. v \in Row
    BY <2>2 DEF Work, ConversationTyped, RowsOfChats
  <2> HIDE DEF v
  <2>4. h \in Work /\ h.kind = j.kind /\ h.step = "put"
    BY <2>2, <2>3 DEF Work, Steps
  <2>5. JobTyped(h)
    BY <2>1, <2>4 DEF JobTyped
  <2>6. QED
    BY <2>1, <2>5, JobAdded DEF ConversationTyped
<1>33. ASSUME NEW j \in jobs, PutCard(j) PROVE JobsTyped'
  <2>1. j \in Work
    BY DEF ConversationTyped, JobsTyped, JobTyped
  <2>2. CASE j.kind = "send"
    <3> DEFINE h == [j EXCEPT !.step = "note"]
    <3>1. jobs' \subseteq jobs \cup {h}
      BY <1>33, <2>2 DEF PutCard, Goes
    <3>2. h \in Work /\ h.kind = "send" /\ h.step = "note"
      BY <2>1, <2>2 DEF Work, Steps
    <3>3. JobTyped(h)
      BY <3>2 DEF JobTyped
    <3>4. QED
      BY <3>1, <3>3, JobAdded DEF ConversationTyped
  <2>3. CASE j.kind = "reconcile"
    <3> DEFINE h == [j EXCEPT !.step = "count", !.ids = {}]
    <3>1. jobs' \subseteq jobs \cup {h}
      BY <1>33, <2>3 DEF PutCard, Goes
    <3>2. h \in Work /\ h.step = "count"
      BY <2>1 DEF Work, Steps
    <3>3. JobTyped(h)
      BY <3>2 DEF JobTyped
    <3>4. QED
      BY <3>1, <3>3, JobAdded DEF ConversationTyped
  <2>4. CASE j.kind \notin {"send", "reconcile"}
    BY <1>33, <2>4 DEF PutCard, JobEnds, ConversationTyped, JobsTyped
  <2>5. QED
    BY <2>2, <2>3, <2>4
<1>34. ASSUME NEW j \in jobs, Revised(j) PROVE JobsTyped'
  <2> DEFINE h == [j EXCEPT !.kind = "read", !.step = "count"]
  <2>1. jobs' \subseteq jobs \cup {h}
    BY <1>34 DEF Revised, Goes, JobEnds
  <2>2. j \in Work
    BY DEF ConversationTyped, JobsTyped, JobTyped
  <2>3. h \in Work /\ h.step = "count"
    BY <2>2 DEF Work, Steps, Kind
  <2>4. JobTyped(h)
    BY <2>3 DEF JobTyped
  <2>5. QED
    BY <2>1, <2>4, JobAdded DEF ConversationTyped
<1>35. ASSUME NEW j \in jobs, ListThread(j) PROVE JobsTyped'
  <2> DEFINE s == IF log[j.peer] = {} THEN "drop" ELSE "reset"
             h == [j EXCEPT !.step = s]
  <2>1. jobs' \subseteq jobs \cup {h}
    BY <1>35 DEF ListThread, Goes
  <2>2. j \in Work
    BY DEF ConversationTyped, JobsTyped, JobTyped
  <2>3. s \in {"drop", "reset"}
    OBVIOUS
  <2> HIDE DEF s
  <2>4. h \in Work /\ h.step = s
    BY <2>2, <2>3 DEF Work, Steps
  <2>5. JobTyped(h)
    BY <2>3, <2>4 DEF JobTyped
  <2>6. QED
    BY <2>1, <2>5, JobAdded DEF ConversationTyped
<1>36. ASSUME NEW j \in jobs, ResetStat(j) PROVE JobsTyped'
  <2> DEFINE 
             h == [j EXCEPT !.step = "count"]
  <2>1. jobs' \subseteq jobs \cup {h}
    BY <1>36 DEF ResetStat, Goes, JobEnds
  <2>2. j \in Work
    BY DEF ConversationTyped, JobsTyped, JobTyped
  <2>4. h \in Work /\ h.kind = j.kind /\ h.step = "count"
    BY <2>2 DEF Work, Steps
  <2>5. JobTyped(h)
    BY <2>1, <2>4 DEF JobTyped
  <2>6. QED
    BY <2>1, <2>5, JobAdded DEF ConversationTyped
<1>37. ASSUME UNCHANGED conversationVars PROVE JobsTyped'
  BY <1>37 DEF conversationVars, JobsTyped, ConversationTyped
<1>38. QED
  BY <1>1, <1>2, <1>3, <1>4, <1>5, <1>6, <1>7, <1>8, <1>9, <1>10, <1>11, <1>12, <1>13, <1>14, <1>15, <1>16,
     <1>17, <1>18, <1>19, <1>20, <1>21, <1>22, <1>23, <1>24, <1>25, <1>26, <1>27, <1>28, <1>29, <1>30, <1>31,
     <1>32, <1>33, <1>34, <1>35, <1>36, <1>37 DEF ConversationNext

\* Every step keeps the row that a handler is about to put back as it stands in the table.
LEMMA RowIsFreshStep ==
  ASSUME ConversationTyped, RowIsFresh, [ConversationNext]_conversationVars PROVE RowIsFresh'
<1>1. ASSUME NEW p \in Thread \cup {NoThread}, OpenChat(p) PROVE RowIsFresh'
  BY <1>1 DEF OpenChat, Moves, RowIsFresh
<1>2. ASSUME Type PROVE RowIsFresh'
  BY <1>2 DEF Type, RowIsFresh
<1>3. ASSUME SaveDraft PROVE RowIsFresh'
  BY <1>3 DEF SaveDraft, Writes, RowIsFresh, Job, RowsOfChats, FlagsTyped, ConversationTyped, JobsTyped,
     JobTyped, Work
<1>4. ASSUME Submit PROVE RowIsFresh'
  BY <1>4 DEF Submit, Starts, Moves, RowIsFresh, Job
<1>5. ASSUME ClearChat PROVE RowIsFresh'
  BY <1>5 DEF ClearChat, Starts, Moves, RowIsFresh, Job
<1>6. ASSUME Archive PROVE RowIsFresh'
  BY <1>6 DEF Archive, Writes, Moves, RowIsFresh, Job, RowsOfChats, FlagsTyped, ConversationTyped, JobsTyped,
     JobTyped, Work
<1>7. ASSUME ReloadPage PROVE RowIsFresh'
  BY <1>7 DEF ReloadPage, Moves, RowIsFresh
<1>8. ASSUME Verify PROVE RowIsFresh'
  BY <1>8 DEF Verify, Mark, Writes, Moves, RowIsFresh, Job, RowsOfChats, FlagsTyped, ConversationTyped,
     JobsTyped, JobTyped, Work
<1>9. ASSUME TogglePin PROVE RowIsFresh'
  BY <1>9 DEF TogglePin, Mark, Writes, Moves, RowIsFresh, Job, RowsOfChats, FlagsTyped, ConversationTyped,
     JobsTyped, JobTyped, Work
<1>10. ASSUME SendFile PROVE RowIsFresh'
  BY <1>10 DEF SendFile, Starts, Moves, RowIsFresh, Job
<1>11. ASSUME ExportBackup PROVE RowIsFresh'
  BY <1>11 DEF ExportBackup, Moves, RowIsFresh
<1>12. ASSUME ImportBackup PROVE RowIsFresh'
  <2>1. ASSUME NEW h \in jobs', h.step = "put", ~torn[h.peer]' PROVE FALSE
    <3>1. CASE \E k \in jobs : k.step # "wipe" /\ h = k
      <4>1. h \in jobs /\ h.peer \in Thread
        BY <3>1 DEF ConversationTyped, JobsTyped, JobTyped, Work
      <4>2. torn'[h.peer] = (torn[h.peer] \/ \E k \in jobs : k.peer = h.peer /\ k.step = "put")
        BY <1>12, <4>1 DEF ImportBackup
      <4>3. QED
        BY <2>1, <4>1, <4>2
    <3>2. CASE \E k \in jobs : k.step = "wipe" /\ h = [k EXCEPT !.ids = {}]
      BY <2>1, <3>2 DEF ConversationTyped, JobsTyped, JobTyped, Work
    <3>3. CASE \E p \in Thread : h = Job("import", p, "list")
      BY <2>1, <3>3 DEF Job
    <3>4. QED
      BY <1>12, <2>1, <3>1, <3>2, <3>3 DEF ImportBackup
  <2>2. QED
    BY <2>1 DEF RowIsFresh
<1>13. ASSUME NEW p \in Thread, Arrives(p) PROVE RowIsFresh'
  BY <1>13 DEF Arrives, Comes, Starts, Logs, Moves, RowIsFresh, Job
<1>14. ASSUME NEW p \in Thread, SentElsewhere(p) PROVE RowIsFresh'
  BY <1>14 DEF SentElsewhere, Comes, Starts, Logs, Moves, RowIsFresh, Job
<1>15. ASSUME NEW p \in Thread, Touch(p) PROVE RowIsFresh'
  BY <1>15 DEF Touch, Starts, Moves, RowIsFresh, Job
<1>16. ASSUME NEW p \in Thread, NEW m \in log[p], EditEnvelope(p, m) PROVE RowIsFresh'
  BY <1>16 DEF EditEnvelope, RevisedByPeer, Alters, Starts, Logs, Moves, RowIsFresh, Job
<1>17. ASSUME NEW p \in Thread, NEW m \in log[p], DeleteEnvelope(p, m) PROVE RowIsFresh'
  BY <1>17 DEF DeleteEnvelope, RevisedByPeer, Alters, Starts, Logs, Moves, RowIsFresh, Job
<1>18. ASSUME NEW p \in Thread, NEW m \in log[p], p = open, ReadMessage(m) PROVE RowIsFresh'
  BY <1>18 DEF ReadMessage, Starts, Logs, Moves, RowIsFresh, Job
<1>19. ASSUME NEW p \in Thread, NEW m \in log[p], p = open, SendEdit(m) PROVE RowIsFresh'
  BY <1>19 DEF SendEdit, Revise, Starts, Moves, RowIsFresh, Job
<1>20. ASSUME NEW p \in Thread, NEW m \in log[p], p = open, SendDelete(m) PROVE RowIsFresh'
  BY <1>20 DEF SendDelete, Revise, Starts, Moves, RowIsFresh, Job
<1>21. ASSUME NEW p \in Thread, PinEnvelope(p) PROVE RowIsFresh'
  BY <1>21 DEF PinEnvelope, Mark, Writes, Moves, RowIsFresh, Job, RowsOfChats, FlagsTyped, ConversationTyped,
     JobsTyped, JobTyped, Work
<1>22. ASSUME NEW p \in Thread, Refresh(p) PROVE RowIsFresh'
  BY <1>22 DEF Refresh, Rewrite, Starts, Moves, RowIsFresh, Job
<1>23. ASSUME NEW p \in Thread, Reconcile(p) PROVE RowIsFresh'
  BY <1>23 DEF Reconcile, Rewrite, Starts, Moves, RowIsFresh, Job
<1>24. ASSUME NEW j \in jobs, SubmitFails(j) PROVE RowIsFresh'
  BY <1>24 DEF SubmitFails, JobEnds, RowIsFresh
<1>25. ASSUME NEW j \in jobs, StoreSent(j) PROVE RowIsFresh'
  BY <1>25 DEF StoreSent, Logs, Goes, RowIsFresh, Job, ConversationTyped, JobsTyped, JobTyped, Work
<1>26. ASSUME NEW j \in jobs, ForgetDraft(j) PROVE RowIsFresh'
  BY <1>26 DEF ForgetDraft, Writes, Goes, RowIsFresh, Job, RowsOfChats, FlagsTyped, ConversationTyped,
     JobsTyped, JobTyped, Work
<1>27. ASSUME NEW j \in jobs, ClearInput(j) PROVE RowIsFresh'
  BY <1>27 DEF ClearInput, JobEnds, RowIsFresh
<1>28. ASSUME NEW j \in jobs, CountThread(j) PROVE RowIsFresh'
  BY <1>28 DEF CountThread, Goes, RowIsFresh, Job, ConversationTyped, JobsTyped, JobTyped, Work
<1>29. ASSUME NEW j \in jobs, PutStat(j) PROVE RowIsFresh'
  BY <1>29 DEF PutStat, JobEnds, Goes, RowIsFresh, Job, ConversationTyped, JobsTyped, JobTyped, Work
<1>30. ASSUME NEW j \in jobs, WipeListed(j) PROVE RowIsFresh'
  BY <1>30 DEF WipeListed, Logs, Goes, RowIsFresh, Job, ConversationTyped, JobsTyped, JobTyped, Work
<1>31. ASSUME NEW j \in jobs, DropStat(j) PROVE RowIsFresh'
  BY <1>31 DEF DropStat, JobEnds, RowIsFresh
<1>32. ASSUME NEW j \in jobs, GetCard(j) PROVE RowIsFresh'
  BY <1>32 DEF GetCard, Goes, RowIsFresh, Job, ConversationTyped, JobsTyped, JobTyped, Work
<1>33. ASSUME NEW j \in jobs, PutCard(j) PROVE RowIsFresh'
  <2>1. j \in Work /\ j.peer \in Thread
    BY DEF ConversationTyped, JobsTyped, JobTyped, Work
  <2>2. ASSUME NEW h \in jobs', h.step = "put", ~torn[h.peer]' PROVE h \in jobs \ {j}
    <3>1. [j EXCEPT !.step = "note"].step = "note" /\ [j EXCEPT !.step = "count", !.ids = {}].step = "count"
      BY <2>1 DEF Work
    <3>2. QED
      BY <1>33, <2>2, <3>1 DEF PutCard, Goes, JobEnds
  <2>3. /\ card' = [card EXCEPT ![j.peer] = WholeRow(j)]
        /\ torn' = [torn EXCEPT ![j.peer] = @ \/ \E k \in jobs \ {j} : k.peer = j.peer /\ k.step = "put"]
    BY <1>33 DEF PutCard, Writes
  <2>4. ASSUME NEW h \in jobs \ {j}, h.step = "put", ~torn[h.peer]' PROVE h.row = card[h.peer]'
    <3>1. h.peer \in Thread
      BY DEF ConversationTyped, JobsTyped, JobTyped, Work
    <3>2. CASE h.peer = j.peer
      BY <2>1, <2>3, <2>4, <3>2 DEF ConversationTyped, FlagsTyped
    <3>3. CASE h.peer # j.peer
      BY <2>3, <2>4, <3>1, <3>3 DEF RowIsFresh, ConversationTyped, FlagsTyped, RowsOfChats
    <3>4. QED
      BY <3>2, <3>3
  <2>5. QED
    BY <2>2, <2>4 DEF RowIsFresh
<1>34. ASSUME NEW j \in jobs, Revised(j) PROVE RowIsFresh'
  <2>1. j \in Work
    BY DEF ConversationTyped, JobsTyped, JobTyped
  <2>2. [j EXCEPT !.kind = "read", !.step = "count"].step = "count"
    BY <2>1 DEF Work
  <2>3. \A h \in jobs' : h.step = "put" => h \in jobs
    BY <1>34, <2>2 DEF Revised, Goes, JobEnds
  <2>4. UNCHANGED <<card, torn>>
    BY <1>34 DEF Revised
  <2>5. QED
    BY <2>3, <2>4 DEF RowIsFresh
<1>35. ASSUME NEW j \in jobs, ListThread(j) PROVE RowIsFresh'
  BY <1>35 DEF ListThread, Goes, RowIsFresh, Job, ConversationTyped, JobsTyped, JobTyped, Work
<1>36. ASSUME NEW j \in jobs, ResetStat(j) PROVE RowIsFresh'
  BY <1>36 DEF ResetStat, Goes, RowIsFresh, Job, ConversationTyped, JobsTyped, JobTyped, Work
<1>37. ASSUME UNCHANGED conversationVars PROVE RowIsFresh'
  BY <1>37 DEF conversationVars, RowIsFresh
<1>38. QED
  BY <1>1, <1>2, <1>3, <1>4, <1>5, <1>6, <1>7, <1>8, <1>9, <1>10, <1>11, <1>12, <1>13, <1>14, <1>15, <1>16,
     <1>17, <1>18, <1>19, <1>20, <1>21, <1>22, <1>23, <1>24, <1>25, <1>26, <1>27, <1>28, <1>29, <1>30, <1>31,
     <1>32, <1>33, <1>34, <1>35, <1>36, <1>37 DEF ConversationNext

\* Every step keeps the fingerprint marks and the pins as the user set them.
LEMMA MarksAreKeptStep ==
  ASSUME ConversationTyped, RowIsFresh, MarksAreKept, [ConversationNext]_conversationVars PROVE MarksAreKept'
<1>1. ASSUME NEW p \in Thread \cup {NoThread}, OpenChat(p) PROVE MarksAreKept'
  BY <1>1 DEF OpenChat, Moves, MarksAreKept
<1>2. ASSUME Type PROVE MarksAreKept'
  BY <1>2 DEF Type, MarksAreKept
<1>3. ASSUME SaveDraft PROVE MarksAreKept'
  BY <1>3 DEF SaveDraft, Writes, MarksAreKept, RowsOfChats, Row, FlagsTyped, RowIsFresh, ConversationTyped,
     JobsTyped, JobTyped, Work
<1>4. ASSUME Submit PROVE MarksAreKept'
  BY <1>4 DEF Submit, Starts, Moves, MarksAreKept
<1>5. ASSUME ClearChat PROVE MarksAreKept'
  BY <1>5 DEF ClearChat, Starts, Moves, MarksAreKept
<1>6. ASSUME Archive PROVE MarksAreKept'
  BY <1>6 DEF Archive, Writes, Moves, MarksAreKept, RowsOfChats, Row, FlagsTyped, RowIsFresh,
     ConversationTyped, JobsTyped, JobTyped, Work
<1>7. ASSUME ReloadPage PROVE MarksAreKept'
  BY <1>7 DEF ReloadPage, Moves, MarksAreKept, ConversationTyped, RowsOfChats, Row
<1>8. ASSUME Verify PROVE MarksAreKept'
  BY <1>8 DEF Verify, Mark, Writes, Moves, MarksAreKept, RowsOfChats, Row, FlagsTyped, RowIsFresh,
     ConversationTyped, JobsTyped, JobTyped, Work
<1>9. ASSUME TogglePin PROVE MarksAreKept'
  BY <1>9 DEF TogglePin, Mark, Writes, Moves, MarksAreKept, RowsOfChats, Row, FlagsTyped, RowIsFresh,
     ConversationTyped, JobsTyped, JobTyped, Work
<1>10. ASSUME SendFile PROVE MarksAreKept'
  BY <1>10 DEF SendFile, Starts, Moves, MarksAreKept
<1>11. ASSUME ExportBackup PROVE MarksAreKept'
  BY <1>11 DEF ExportBackup, Moves, MarksAreKept
<1>12. ASSUME ImportBackup PROVE MarksAreKept'
  <2>1. copy \in [Thread -> [card : Row, log : SUBSET Message]] /\ wish \in [Thread -> Row]
    BY <1>12 DEF ImportBackup, ConversationTyped, CopyTyped, RowsOfChats
  <2>2. ASSUME NEW p \in Thread
        PROVE  card[p]'.mark = 0 /\ card[p]'.pin = 0 /\ wish[p]'.mark = 0 /\ wish[p]'.pin = 0
    <3> DEFINE draft == IF typed[p] = NoThread THEN copy[p].card.draft ELSE Restored(wish[p]).draft
    <3>1. copy[p].card \in Row /\ wish[p] \in Row
      BY <2>1
    <3>2. Restored(wish[p]) \in Row /\ Restored(wish[p]).pin = 0 /\ Restored(wish[p]).mark = 0
      BY <3>1, RestoredFields
    <3>3. card[p]' = Restored(copy[p].card)
      BY <1>12 DEF ImportBackup
    <3>4. wish[p]' = [Restored(wish[p]) EXCEPT !.draft = draft]
      BY <1>12 DEF ImportBackup
    <3> HIDE DEF draft
    <3>5. wish[p]'.mark = 0 /\ wish[p]'.pin = 0
      BY <3>2, <3>4 DEF Row
    <3>6. QED
      BY <3>1, <3>3, <3>5, RestoredFields
  <2>3. QED
    BY <2>2 DEF MarksAreKept
<1>13. ASSUME NEW p \in Thread, Arrives(p) PROVE MarksAreKept'
  BY <1>13 DEF Arrives, Comes, Starts, Logs, Moves, MarksAreKept
<1>14. ASSUME NEW p \in Thread, SentElsewhere(p) PROVE MarksAreKept'
  BY <1>14 DEF SentElsewhere, Comes, Starts, Logs, Moves, MarksAreKept
<1>15. ASSUME NEW p \in Thread, Touch(p) PROVE MarksAreKept'
  BY <1>15 DEF Touch, Starts, Moves, MarksAreKept
<1>16. ASSUME NEW p \in Thread, NEW m \in log[p], EditEnvelope(p, m) PROVE MarksAreKept'
  BY <1>16 DEF EditEnvelope, RevisedByPeer, Alters, Starts, Logs, Moves, MarksAreKept
<1>17. ASSUME NEW p \in Thread, NEW m \in log[p], DeleteEnvelope(p, m) PROVE MarksAreKept'
  BY <1>17 DEF DeleteEnvelope, RevisedByPeer, Alters, Starts, Logs, Moves, MarksAreKept
<1>18. ASSUME NEW p \in Thread, NEW m \in log[p], p = open, ReadMessage(m) PROVE MarksAreKept'
  BY <1>18 DEF ReadMessage, Starts, Logs, Moves, MarksAreKept
<1>19. ASSUME NEW p \in Thread, NEW m \in log[p], p = open, SendEdit(m) PROVE MarksAreKept'
  BY <1>19 DEF SendEdit, Revise, Starts, Moves, MarksAreKept
<1>20. ASSUME NEW p \in Thread, NEW m \in log[p], p = open, SendDelete(m) PROVE MarksAreKept'
  BY <1>20 DEF SendDelete, Revise, Starts, Moves, MarksAreKept
<1>21. ASSUME NEW p \in Thread, PinEnvelope(p) PROVE MarksAreKept'
  BY <1>21 DEF PinEnvelope, Mark, Writes, Moves, MarksAreKept, RowsOfChats, Row, FlagsTyped, RowIsFresh,
     ConversationTyped, JobsTyped, JobTyped, Work
<1>22. ASSUME NEW p \in Thread, Refresh(p) PROVE MarksAreKept'
  BY <1>22 DEF Refresh, Rewrite, Starts, Moves, MarksAreKept
<1>23. ASSUME NEW p \in Thread, Reconcile(p) PROVE MarksAreKept'
  BY <1>23 DEF Reconcile, Rewrite, Starts, Moves, MarksAreKept
<1>24. ASSUME NEW j \in jobs, SubmitFails(j) PROVE MarksAreKept'
  BY <1>24 DEF SubmitFails, JobEnds, MarksAreKept
<1>25. ASSUME NEW j \in jobs, StoreSent(j) PROVE MarksAreKept'
  BY <1>25 DEF StoreSent, Logs, Goes, MarksAreKept
<1>26. ASSUME NEW j \in jobs, ForgetDraft(j) PROVE MarksAreKept'
  BY <1>26 DEF ForgetDraft, Writes, Goes, MarksAreKept, RowsOfChats, Row, FlagsTyped, RowIsFresh,
     ConversationTyped, JobsTyped, JobTyped, Work
<1>27. ASSUME NEW j \in jobs, ClearInput(j) PROVE MarksAreKept'
  BY <1>27 DEF ClearInput, JobEnds, MarksAreKept
<1>28. ASSUME NEW j \in jobs, CountThread(j) PROVE MarksAreKept'
  BY <1>28 DEF CountThread, Goes, MarksAreKept
<1>29. ASSUME NEW j \in jobs, PutStat(j) PROVE MarksAreKept'
  BY <1>29 DEF PutStat, JobEnds, Goes, MarksAreKept
<1>30. ASSUME NEW j \in jobs, WipeListed(j) PROVE MarksAreKept'
  BY <1>30 DEF WipeListed, Logs, Goes, MarksAreKept
<1>31. ASSUME NEW j \in jobs, DropStat(j) PROVE MarksAreKept'
  BY <1>31 DEF DropStat, JobEnds, MarksAreKept
<1>32. ASSUME NEW j \in jobs, GetCard(j) PROVE MarksAreKept'
  BY <1>32 DEF GetCard, Goes, MarksAreKept
<1>33. ASSUME NEW j \in jobs, PutCard(j) PROVE MarksAreKept'
  <2>1. j \in Work /\ j.peer \in Thread /\ j.row \in Row
    BY DEF ConversationTyped, JobsTyped, JobTyped, Work
  <2>2. /\ card' = [card EXCEPT ![j.peer] = WholeRow(j)]
        /\ torn' = [torn EXCEPT ![j.peer] = @ \/ \E k \in jobs \ {j} : k.peer = j.peer /\ k.step = "put"]
        /\ wish' = IF j.kind = "reconcile" THEN [wish EXCEPT ![j.peer].pin = 0] ELSE wish
    BY <1>33 DEF PutCard, Writes
  <2>3. ASSUME NEW p \in Thread, ~torn[p]' PROVE card[p]'.mark = wish[p]'.mark /\ card[p]'.pin = wish[p]'.pin
    <3>1. ~torn[p] /\ card[p].mark = wish[p].mark /\ card[p].pin = wish[p].pin
      BY <2>2, <2>3 DEF MarksAreKept, ConversationTyped, FlagsTyped
    <3>2. CASE p # j.peer
      BY <2>2, <3>1, <3>2 DEF ConversationTyped, RowsOfChats
    <3>3. CASE p = j.peer
      <4>1. j.row = card[p]
        BY <1>33, <3>1, <3>3 DEF PutCard, RowIsFresh
      <4>2. card[p]' = WholeRow(j)
        BY <2>2, <3>3 DEF ConversationTyped, RowsOfChats
      <4>3. wish[p]'.mark = wish[p].mark /\ wish[p]'.pin = IF j.kind = "reconcile" THEN 0 ELSE wish[p].pin
        BY <2>2, <3>3 DEF ConversationTyped, RowsOfChats, Row
      <4>4. QED
        BY <2>1, <3>1, <4>1, <4>2, <4>3, WholeRowFields
    <3>4. QED
      BY <3>2, <3>3
  <2>4. QED
    BY <2>3 DEF MarksAreKept
<1>34. ASSUME NEW j \in jobs, Revised(j) PROVE MarksAreKept'
  BY <1>34 DEF Revised, Alters, Logs, JobEnds, Goes, MarksAreKept
<1>35. ASSUME NEW j \in jobs, ListThread(j) PROVE MarksAreKept'
  BY <1>35 DEF ListThread, Goes, MarksAreKept
<1>36. ASSUME NEW j \in jobs, ResetStat(j) PROVE MarksAreKept'
  BY <1>36 DEF ResetStat, Goes, MarksAreKept
<1>37. ASSUME UNCHANGED conversationVars PROVE MarksAreKept'
  BY <1>37 DEF conversationVars, MarksAreKept
<1>38. QED
  BY <1>1, <1>2, <1>3, <1>4, <1>5, <1>6, <1>7, <1>8, <1>9, <1>10, <1>11, <1>12, <1>13, <1>14, <1>15, <1>16,
     <1>17, <1>18, <1>19, <1>20, <1>21, <1>22, <1>23, <1>24, <1>25, <1>26, <1>27, <1>28, <1>29, <1>30, <1>31,
     <1>32, <1>33, <1>34, <1>35, <1>36, <1>37 DEF ConversationNext

\* Every step keeps what was typed in the input, or in the send that will empty it.
LEMMA SendsInputStep ==
  ASSUME ConversationTyped, RowIsFresh, SendsInput, [ConversationNext]_conversationVars PROVE SendsInput'
<1>1. ASSUME NEW p \in Thread \cup {NoThread}, OpenChat(p) PROVE SendsInput'
  BY <1>1 DEF OpenChat, Moves, SendsInput, OneText, Input
<1>2. ASSUME Type PROVE SendsInput'
  <2>1. /\ open \in Thread /\ texts + 1 \in Nat /\ UNCHANGED <<card, jobs, torn>>
        /\ typed' = [typed EXCEPT ![open] = texts + 1]
        /\ wish' = [wish EXCEPT ![open].draft = texts + 1]
        /\ hasty' = [hasty EXCEPT ![open] = @ \/ Sending(open)]
    BY <1>2, ConversationAssumption DEF Type, ConversationTyped, ComposerTyped
  <2>2. ASSUME NEW p \in Thread PROVE OneText(p)'
    <3>1. CASE p # open
      <4>1. hasty'[p] = hasty[p] /\ wish'[p] = wish[p] /\ Input(p)' = Input(p) /\ OneText(p)
        BY <2>1, <3>1 DEF ConversationTyped, FlagsTyped, RowsOfChats, ComposerTyped, Input, SendsInput
      <4>2. QED
        BY <2>1, <4>1, SendsAsBefore
    <3>2. CASE p = open
      <4>1. wish'[p].draft = texts + 1 /\ Input(p)' = texts + 1
        BY <2>1, <3>2, ConversationAssumption DEF ConversationTyped, RowsOfChats, Row, ComposerTyped, Input
      <4>2. hasty'[p] \/ \A j \in jobs : ~(j.kind = "send" /\ j.peer = p)
        BY <2>1, <3>2 DEF ConversationTyped, FlagsTyped, Sending
      <4>3. QED
        BY <2>1, <4>1, <4>2 DEF OneText
    <3>3. QED
      BY <3>1, <3>2
  <2>3. QED
    BY <2>2 DEF SendsInput
<1>3. ASSUME SaveDraft PROVE SendsInput'
  BY <1>3 DEF SaveDraft, Writes, SendsInput, OneText, Input, Job, RowsOfChats, Row, FlagsTyped, ComposerTyped,
     ConversationTyped, JobsTyped, JobTyped, Work
<1>4. ASSUME Submit PROVE SendsInput'
  BY <1>4 DEF Submit, Starts, Moves, SendsInput, OneText, Input, Job
<1>5. ASSUME ClearChat PROVE SendsInput'
  BY <1>5 DEF ClearChat, Starts, Moves, SendsInput, OneText, Input, Job
<1>6. ASSUME Archive PROVE SendsInput'
  BY <1>6 DEF Archive, Writes, Moves, SendsInput, OneText, Input, Job, RowsOfChats, Row, FlagsTyped,
     ComposerTyped, ConversationTyped, JobsTyped, JobTyped, Work
<1>7. ASSUME ReloadPage PROVE SendsInput'
  BY <1>7 DEF ReloadPage, Moves, SendsInput, OneText, Input, Job, RowsOfChats, Row, FlagsTyped, ComposerTyped,
     ConversationTyped, JobsTyped, JobTyped, Work
<1>8. ASSUME Verify PROVE SendsInput'
  BY <1>8 DEF Verify, Mark, Writes, Moves, SendsInput, OneText, Input, Job, RowsOfChats, Row, FlagsTyped,
     ComposerTyped, ConversationTyped, JobsTyped, JobTyped, Work
<1>9. ASSUME TogglePin PROVE SendsInput'
  BY <1>9 DEF TogglePin, Mark, Writes, Moves, SendsInput, OneText, Input, Job, RowsOfChats, Row, FlagsTyped,
     ComposerTyped, ConversationTyped, JobsTyped, JobTyped, Work
<1>10. ASSUME SendFile PROVE SendsInput'
  BY <1>10 DEF SendFile, Starts, Moves, SendsInput, OneText, Input, Job
<1>11. ASSUME ExportBackup PROVE SendsInput'
  BY <1>11 DEF ExportBackup, Moves, SendsInput, OneText, Input
<1>12. ASSUME ImportBackup PROVE SendsInput'
  <2>1. copy \in [Thread -> [card : Row, log : SUBSET Message]] /\ wish \in [Thread -> Row]
    BY <1>12 DEF ImportBackup, ConversationTyped, CopyTyped, RowsOfChats
  <2>2. ASSUME NEW p \in Thread PROVE OneText(p)'
    <3> DEFINE draft == IF typed[p] = NoThread THEN copy[p].card.draft ELSE Restored(wish[p]).draft
    <3>1. copy[p].card \in Row /\ wish[p] \in Row
      BY <2>1
    <3>2. /\ Restored(wish[p]) \in Row /\ Restored(wish[p]).draft = wish[p].draft
          /\ Restored(copy[p].card).draft = copy[p].card.draft
      BY <3>1, RestoredFields
    <3>3. /\ card[p]' = Restored(copy[p].card) /\ typed' = typed
          /\ hasty'[p] = (hasty[p] \/ Sending(p)) /\ (torn[p] => torn'[p])
      BY <1>12 DEF ImportBackup
    <3>4. wish[p]' = [Restored(wish[p]) EXCEPT !.draft = draft]
      BY <1>12 DEF ImportBackup
    <3> HIDE DEF draft
    <3>5. wish[p]'.draft = draft
      BY <3>2, <3>4 DEF Row
    <3>6. CASE Sending(p)
      BY <3>3, <3>6 DEF OneText
    <3>7. CASE ~Sending(p)
      <4>1. \A h \in jobs' : ~(h.kind = "send" /\ h.peer = p)
        <5>1. ASSUME NEW h \in jobs' PROVE ~(h.kind = "send" /\ h.peer = p)
          <6>1. CASE h \in jobs
            BY <3>7, <6>1 DEF Sending
          <6>2. CASE \E k \in jobs : h = [k EXCEPT !.ids = {}]
            BY <3>7, <6>2 DEF Sending, ConversationTyped, JobsTyped, JobTyped, Work
          <6>3. CASE \E q \in Thread : h = Job("import", q, "list")
            BY <6>3 DEF Job
          <6>4. QED
            BY <1>12, <6>1, <6>2, <6>3 DEF ImportBackup
        <5>2. QED
          BY <5>1
      <4>2. ~hasty'[p] /\ ~torn'[p] => wish[p]'.draft \in {0, Input(p)'}
        <5>1. CASE typed[p] = NoThread
          BY <3>2, <3>3, <3>5, <5>1 DEF draft, Input
        <5>2. CASE typed[p] # NoThread
          <6>1. wish[p]'.draft = wish[p].draft /\ Input(p)' = typed[p] /\ Input(p) = typed[p]
            BY <3>2, <3>3, <3>5, <5>2 DEF draft, Input
          <6>2. QED
            BY <3>3, <3>7, <6>1 DEF SendsInput, OneText, Sending
        <5>3. QED
          BY <5>1, <5>2
      <4>3. QED
        BY <4>1, <4>2 DEF OneText
    <3>8. QED
      BY <3>6, <3>7
  <2>3. QED
    BY <2>2 DEF SendsInput
<1>13. ASSUME NEW p \in Thread, Arrives(p) PROVE SendsInput'
  BY <1>13 DEF Arrives, Comes, Starts, Logs, Moves, SendsInput, OneText, Input, Job
<1>14. ASSUME NEW p \in Thread, SentElsewhere(p) PROVE SendsInput'
  BY <1>14 DEF SentElsewhere, Comes, Starts, Logs, Moves, SendsInput, OneText, Input, Job
<1>15. ASSUME NEW p \in Thread, Touch(p) PROVE SendsInput'
  BY <1>15 DEF Touch, Starts, Moves, SendsInput, OneText, Input, Job
<1>16. ASSUME NEW p \in Thread, NEW m \in log[p], EditEnvelope(p, m) PROVE SendsInput'
  BY <1>16 DEF EditEnvelope, RevisedByPeer, Alters, Starts, Logs, Moves, SendsInput, OneText, Input, Job
<1>17. ASSUME NEW p \in Thread, NEW m \in log[p], DeleteEnvelope(p, m) PROVE SendsInput'
  BY <1>17 DEF DeleteEnvelope, RevisedByPeer, Alters, Starts, Logs, Moves, SendsInput, OneText, Input, Job
<1>18. ASSUME NEW p \in Thread, NEW m \in log[p], p = open, ReadMessage(m) PROVE SendsInput'
  BY <1>18 DEF ReadMessage, Starts, Logs, Moves, SendsInput, OneText, Input, Job
<1>19. ASSUME NEW p \in Thread, NEW m \in log[p], p = open, SendEdit(m) PROVE SendsInput'
  BY <1>19 DEF SendEdit, Revise, Starts, Moves, SendsInput, OneText, Input, Job
<1>20. ASSUME NEW p \in Thread, NEW m \in log[p], p = open, SendDelete(m) PROVE SendsInput'
  BY <1>20 DEF SendDelete, Revise, Starts, Moves, SendsInput, OneText, Input, Job
<1>21. ASSUME NEW p \in Thread, PinEnvelope(p) PROVE SendsInput'
  BY <1>21 DEF PinEnvelope, Mark, Writes, Moves, SendsInput, OneText, Input, Job, RowsOfChats, Row,
     FlagsTyped, ComposerTyped, ConversationTyped, JobsTyped, JobTyped, Work
<1>22. ASSUME NEW p \in Thread, Refresh(p) PROVE SendsInput'
  BY <1>22 DEF Refresh, Rewrite, Starts, Moves, SendsInput, OneText, Input, Job
<1>23. ASSUME NEW p \in Thread, Reconcile(p) PROVE SendsInput'
  BY <1>23 DEF Reconcile, Rewrite, Starts, Moves, SendsInput, OneText, Input, Job
<1>24. ASSUME NEW j \in jobs, SubmitFails(j) PROVE SendsInput'
  BY <1>24 DEF SubmitFails, JobEnds, SendsInput, OneText, Input
<1>25. ASSUME NEW j \in jobs, StoreSent(j) PROVE SendsInput'
  <2> DEFINE h == [j EXCEPT !.step = "count"]
  <2>1. j \in Work
    BY DEF ConversationTyped, JobsTyped, JobTyped
  <2>2. h.kind = j.kind /\ h.peer = j.peer /\ h.text = j.text
    BY <2>1 DEF Work
  <2>3. jobs' = (jobs \ {j}) \cup {h} /\ j.step # "clear" /\ UNCHANGED <<hasty, torn, wish, typed, card>>
    BY <1>25 DEF StoreSent, Goes
  <2> HIDE DEF h
  <2>4. QED
    BY <2>2, <2>3, SendsGoOn
<1>26. ASSUME NEW j \in jobs, ForgetDraft(j) PROVE SendsInput'
  <2> DEFINE h == [j EXCEPT !.step = "clear"]
  <2>1. j \in Work /\ j.peer \in Thread /\ j.kind = "send" /\ j.step = "note"
    BY <1>26 DEF ForgetDraft, ConversationTyped, JobsTyped, JobTyped, Work
  <2>2. h.kind = "send" /\ h.peer = j.peer /\ h.text = j.text /\ h.step = "clear"
    BY <2>1 DEF Work
  <2>3. /\ jobs' = (jobs \ {j}) \cup {h} /\ UNCHANGED <<hasty, wish, typed>>
        /\ card' = [card EXCEPT ![j.peer] = [card[j.peer] EXCEPT !.draft = 0]]
        /\ torn' = [torn EXCEPT ![j.peer] = @ \/ \E k \in jobs \ {j} : k.peer = j.peer /\ k.step = "put"]
    BY <1>26 DEF ForgetDraft, Goes, Writes
  <2> HIDE DEF h
  <2>4. /\ \A g \in jobs' : g.kind = "send" =>
             \E k \in jobs : k.kind = "send" /\ k.peer = g.peer /\ k.text = g.text
        /\ \A k \in jobs : k.kind = "send" /\ k.step = "clear" => k \in jobs'
    BY <2>1, <2>2, <2>3, SendsMoved
  <2>5. ASSUME NEW p \in Thread PROVE OneText(p)'
    <3>1. torn[p] => torn'[p]
      BY <2>3 DEF ConversationTyped, FlagsTyped
    <3>2. CASE p # j.peer
      <4>1. OneText(p) /\ Input(p)' = Input(p)
        BY <2>3, <3>2 DEF SendsInput, Input, ConversationTyped, RowsOfChats
      <4>2. QED
        BY <2>3, <2>4, <3>1, <4>1, SendsAsBefore
    <3>3. CASE p = j.peer
      <4>1. Input(p)' = Input(p) \/ Input(p)' = 0
        BY <2>1, <2>3, <3>3 DEF Input, ConversationTyped, RowsOfChats, Row
      <4>2. ASSUME ~hasty[p], ~torn[p]
            PROVE  \A k \in jobs : k.kind = "send" /\ k.peer = p => {wish[p].draft, Input(p)} \subseteq {0, k.text}
        BY <4>2 DEF SendsInput, OneText
      <4>3. ASSUME ~hasty'[p], ~torn'[p] PROVE wish'[p].draft \in {0, h.text}
        BY <2>1, <2>2, <2>3, <3>1, <3>3, <4>2, <4>3
      <4>4. ASSUME ~hasty'[p], ~torn'[p], NEW g \in jobs', g.kind = "send", g.peer = p
            PROVE  {wish'[p].draft, Input(p)'} \subseteq {0, g.text}
        <5>1. PICK k \in jobs : k.kind = "send" /\ k.peer = p /\ k.text = g.text
          BY <2>4, <4>4
        <5>2. {wish[p].draft, Input(p)} \subseteq {0, k.text}
          BY <2>3, <3>1, <4>2, <4>4, <5>1
        <5>3. QED
          BY <2>3, <4>1, <5>1, <5>2
      <4>5. h \in jobs'
        BY <2>3
      <4>6. QED
        BY <2>2, <3>3, <4>3, <4>4, <4>5 DEF OneText
    <3>4. QED
      BY <3>2, <3>3
  <2>6. QED
    BY <2>5 DEF SendsInput
<1>27. ASSUME NEW j \in jobs, ClearInput(j) PROVE SendsInput'
  <2>1. j \in Work /\ j.peer \in Thread /\ j.kind = "send" /\ j.step = "clear"
    BY <1>27 DEF ClearInput, ConversationTyped, JobsTyped, JobTyped, Work
  <2>2. /\ jobs' = jobs \ {j} /\ UNCHANGED <<hasty, torn, card>>
        /\ typed' = [typed EXCEPT ![j.peer] = 0]
        /\ wish' = [wish EXCEPT ![j.peer].draft = IF @ = j.text THEN 0 ELSE @]
    BY <1>27 DEF ClearInput, JobEnds
  <2>3. ASSUME NEW p \in Thread PROVE OneText(p)'
    <3>1. CASE p # j.peer
      <4>1. OneText(p) /\ Input(p)' = Input(p) /\ wish'[p] = wish[p]
        BY <2>2, <3>1 DEF SendsInput, Input, ConversationTyped, RowsOfChats, ComposerTyped
      <4>2. \A k : k.peer = p => (k \in jobs' <=> k \in jobs)
        BY <2>2, <3>1
      <4>3. QED
        BY <2>2, <4>1, <4>2 DEF OneText
    <3>2. CASE p = j.peer
      <4>1. Input(p)' = 0
        BY <2>2, <3>2, ConversationAssumption DEF Input, ConversationTyped, ComposerTyped
      <4>2. wish'[p].draft = IF wish[p].draft = j.text THEN 0 ELSE wish[p].draft
        BY <2>2, <3>2 DEF ConversationTyped, RowsOfChats, Row
      <4>3. ASSUME ~hasty'[p], ~torn'[p] PROVE wish'[p].draft = 0
        BY <2>1, <2>2, <3>2, <4>2, <4>3 DEF SendsInput, OneText
      <4>4. QED
        BY <4>1, <4>3 DEF OneText
    <3>3. QED
      BY <3>1, <3>2
  <2>4. QED
    BY <2>3 DEF SendsInput
<1>28. ASSUME NEW j \in jobs, CountThread(j) PROVE SendsInput'
  <2> DEFINE h == [j EXCEPT !.step = "stat", !.seen = Summary(log[j.peer])]
  <2>1. j \in Work
    BY DEF ConversationTyped, JobsTyped, JobTyped
  <2>2. h.kind = j.kind /\ h.peer = j.peer /\ h.text = j.text
    BY <2>1 DEF Work
  <2>3. jobs' = (jobs \ {j}) \cup {h} /\ j.step # "clear" /\ UNCHANGED <<hasty, torn, wish, typed, card>>
    BY <1>28 DEF CountThread, Goes
  <2> HIDE DEF h
  <2>4. QED
    BY <2>2, <2>3, SendsGoOn
<1>29. ASSUME NEW j \in jobs, PutStat(j) PROVE SendsInput'
  <2> DEFINE h == [j EXCEPT !.step = "get"]
  <2>1. j \in Work
    BY DEF ConversationTyped, JobsTyped, JobTyped
  <2>2. h.kind = j.kind /\ h.peer = j.peer /\ h.text = j.text
    BY <2>1 DEF Work
  <2>3. /\ jobs' = jobs \ {j} \/ jobs' = (jobs \ {j}) \cup {h}
        /\ j.step # "clear" /\ UNCHANGED <<hasty, torn, wish, typed, card>>
    BY <1>29 DEF PutStat, Goes, JobEnds
  <2> HIDE DEF h
  <2>4. CASE jobs' = jobs \ {j}
    BY <2>3, <2>4 DEF SendsInput, OneText, Input
  <2>5. QED
    BY <2>2, <2>3, <2>4, SendsGoOn
<1>30. ASSUME NEW j \in jobs, WipeListed(j) PROVE SendsInput'
  <2> DEFINE h == [j EXCEPT !.step = "drop"]
  <2>1. j \in Work
    BY DEF ConversationTyped, JobsTyped, JobTyped
  <2>2. h.kind = j.kind /\ h.peer = j.peer /\ h.text = j.text
    BY <2>1 DEF Work
  <2>3. jobs' = (jobs \ {j}) \cup {h} /\ j.step # "clear" /\ UNCHANGED <<hasty, torn, wish, typed, card>>
    BY <1>30 DEF WipeListed, Goes
  <2> HIDE DEF h
  <2>4. QED
    BY <2>2, <2>3, SendsGoOn
<1>31. ASSUME NEW j \in jobs, DropStat(j) PROVE SendsInput'
  BY <1>31 DEF DropStat, JobEnds, SendsInput, OneText, Input
<1>32. ASSUME NEW j \in jobs, GetCard(j) PROVE SendsInput'
  <2> DEFINE h == [j EXCEPT !.step = "put", !.row = card[j.peer]]
  <2>1. j \in Work
    BY DEF ConversationTyped, JobsTyped, JobTyped
  <2>2. h.kind = j.kind /\ h.peer = j.peer /\ h.text = j.text
    BY <2>1 DEF Work
  <2>3. jobs' = (jobs \ {j}) \cup {h} /\ j.step # "clear" /\ UNCHANGED <<hasty, torn, wish, typed, card>>
    BY <1>32 DEF GetCard, Goes
  <2> HIDE DEF h
  <2>4. QED
    BY <2>2, <2>3, SendsGoOn
<1>33. ASSUME NEW j \in jobs, PutCard(j) PROVE SendsInput'
  <2>1. j \in Work /\ j.peer \in Thread /\ j.row \in Row /\ j.step = "put"
    BY <1>33 DEF PutCard, ConversationTyped, JobsTyped, JobTyped, Work
  <2>2. /\ card' = [card EXCEPT ![j.peer] = WholeRow(j)] /\ UNCHANGED <<hasty, typed>>
        /\ torn' = [torn EXCEPT ![j.peer] = @ \/ \E k \in jobs \ {j} : k.peer = j.peer /\ k.step = "put"]
        /\ wish' = IF j.kind = "reconcile" THEN [wish EXCEPT ![j.peer].pin = 0] ELSE wish
    BY <1>33 DEF PutCard, Writes
  <2>3. /\ \A g \in jobs' : g.kind = "send" =>
             \E k \in jobs : k.kind = "send" /\ k.peer = g.peer /\ k.text = g.text
        /\ \A k \in jobs : k.kind = "send" /\ k.step = "clear" => k \in jobs'
    <3>1. CASE j.kind = "send"
      <4>1. /\ [j EXCEPT !.step = "note"].kind = j.kind /\ [j EXCEPT !.step = "note"].peer = j.peer
            /\ [j EXCEPT !.step = "note"].text = j.text
        BY <2>1 DEF Work
      <4>2. jobs' = (jobs \ {j}) \cup {[j EXCEPT !.step = "note"]}
        BY <1>33, <3>1 DEF PutCard, Goes
      <4>3. QED
        BY <2>1, <4>1, <4>2, SendsMoved
    <3>2. CASE j.kind = "reconcile"
      <4> DEFINE h == [j EXCEPT !.step = "count", !.ids = {}]
      <4>1. h.kind = j.kind /\ h.peer = j.peer /\ h.text = j.text
        BY <2>1 DEF Work
      <4>2. jobs' = (jobs \ {j}) \cup {h}
        BY <1>33, <3>2 DEF PutCard, Goes
      <4> HIDE DEF h
      <4>3. QED
        BY <2>1, <4>1, <4>2, SendsMoved
    <3>3. CASE j.kind \notin {"send", "reconcile"}
      BY <1>33, <3>3 DEF PutCard, JobEnds
    <3>4. QED
      BY <3>1, <3>2, <3>3
  <2>4. ASSUME NEW p \in Thread PROVE OneText(p)'
    <3>1. (torn[p] => torn'[p]) /\ wish'[p].draft = wish[p].draft
      BY <2>1, <2>2 DEF ConversationTyped, FlagsTyped, RowsOfChats, Row
    <3>2. ~torn'[p] => card'[p].draft = card[p].draft
      <4>1. CASE p # j.peer
        BY <2>2, <4>1 DEF ConversationTyped, RowsOfChats
      <4>2. CASE p = j.peer
        <5>1. card'[p] = WholeRow(j)
          BY <2>2, <4>2 DEF ConversationTyped, RowsOfChats
        <5>2. QED
          BY <2>1, <3>1, <4>2, <5>1, WholeRowFields DEF RowIsFresh
      <4>3. QED
        BY <4>1, <4>2
    <3>3. OneText(p) /\ hasty'[p] = hasty[p] /\ (~torn'[p] => Input(p)' = Input(p))
      BY <2>2, <3>2 DEF SendsInput, Input
    <3>4. QED
      BY <2>3, <3>1, <3>3, SendsAsBefore
  <2>5. QED
    BY <2>4 DEF SendsInput
<1>34. ASSUME NEW j \in jobs, Revised(j) PROVE SendsInput'
  <2> DEFINE h == [j EXCEPT !.kind = "read", !.step = "count"]
  <2>1. j \in Work /\ j.kind # "send" /\ UNCHANGED <<hasty, torn, wish, typed, card>>
    BY <1>34 DEF Revised, ConversationTyped, JobsTyped, JobTyped, Form
  <2>2. h.kind = "read"
    BY <2>1 DEF Work
  <2>3. jobs' = (jobs \ {j}) \cup {h} \/ jobs' = jobs \ {j}
    BY <1>34 DEF Revised, Goes, JobEnds
  <2> HIDE DEF h
  <2>4. \A k : k.kind = "send" => (k \in jobs' <=> k \in jobs)
    BY <2>1, <2>2, <2>3
  <2>5. ASSUME NEW p \in Thread PROVE OneText(p)'
    <3>1. OneText(p) /\ Input(p)' = Input(p)
      BY <2>1 DEF SendsInput, Input
    <3>2. QED
      BY <2>1, <2>4, <3>1, SendsAsBefore
  <2>6. QED
    BY <2>5 DEF SendsInput
<1>35. ASSUME NEW j \in jobs, ListThread(j) PROVE SendsInput'
  BY <1>35 DEF ListThread, Goes, SendsInput, OneText, Input, Job, RowsOfChats, Row, FlagsTyped, ComposerTyped,
     ConversationTyped, JobsTyped, JobTyped, Work
<1>36. ASSUME NEW j \in jobs, ResetStat(j) PROVE SendsInput'
  BY <1>36 DEF ResetStat, Goes, SendsInput, OneText, Input, Job, RowsOfChats, Row, FlagsTyped, ComposerTyped,
     ConversationTyped, JobsTyped, JobTyped, Work
<1>37. ASSUME UNCHANGED conversationVars PROVE SendsInput'
  BY <1>37 DEF conversationVars, SendsInput, OneText, Input
<1>38. QED
  BY <1>1, <1>2, <1>3, <1>4, <1>5, <1>6, <1>7, <1>8, <1>9, <1>10, <1>11, <1>12, <1>13, <1>14, <1>15, <1>16,
     <1>17, <1>18, <1>19, <1>20, <1>21, <1>22, <1>23, <1>24, <1>25, <1>26, <1>27, <1>28, <1>29, <1>30, <1>31,
     <1>32, <1>33, <1>34, <1>35, <1>36, <1>37 DEF ConversationNext

\* Every step keeps the sidebar right, or leaves somebody who will put it right.
LEMMA CountsHoldStep ==
  ASSUME ConversationTyped, CountsHold, [ConversationNext]_conversationVars PROVE CountsHold'
<1>1. ASSUME NEW p \in Thread \cup {NoThread}, OpenChat(p) PROVE CountsHold'
  BY <1>1 DEF OpenChat, Moves, CountsHold, Counted, Owing, Holds
<1>2. ASSUME Type PROVE CountsHold'
  BY <1>2 DEF Type, CountsHold, Counted, Owing, Holds
<1>3. ASSUME SaveDraft PROVE CountsHold'
  BY <1>3 DEF SaveDraft, Writes, CountsHold, Counted, Owing, Holds
<1>4. ASSUME Submit PROVE CountsHold'
  BY <1>4, SummaryOfNone DEF Submit, Starts, Moves, CountsHold, Counted, Owing, Holds, Job
<1>5. ASSUME ClearChat PROVE CountsHold'
  BY <1>5, SummaryOfNone DEF ClearChat, Starts, Moves, CountsHold, Counted, Owing, Holds, Job
<1>6. ASSUME Archive PROVE CountsHold'
  BY <1>6 DEF Archive, Writes, Moves, CountsHold, Counted, Owing, Holds
<1>7. ASSUME ReloadPage PROVE CountsHold'
  <2>1. /\ jobs' = {} /\ stat' = stat /\ log' = log
        /\ \A p \in Thread : ~bent'[p] =>
             ~bent[p] /\ \A j \in jobs : j.peer = p => j.step \notin {"list", "reset", "count", "stat", "drop"}
    BY <1>7 DEF ReloadPage
  <2>2. QED
    BY <2>1 DEF CountsHold, Counted, Owing
<1>8. ASSUME Verify PROVE CountsHold'
  BY <1>8 DEF Verify, Mark, Writes, Moves, CountsHold, Counted, Owing, Holds
<1>9. ASSUME TogglePin PROVE CountsHold'
  BY <1>9 DEF TogglePin, Mark, Writes, Moves, CountsHold, Counted, Owing, Holds
<1>10. ASSUME SendFile PROVE CountsHold'
  BY <1>10, SummaryOfNone DEF SendFile, Starts, Moves, CountsHold, Counted, Owing, Holds, Job
<1>11. ASSUME ExportBackup PROVE CountsHold'
  BY <1>11 DEF ExportBackup, Moves, CountsHold, Counted, Owing, Holds
<1>12. ASSUME ImportBackup PROVE CountsHold'
  <2>1. ASSUME NEW p \in Thread
        PROVE  /\ \E h \in jobs' : h.peer = p /\ Owing(h)
               /\ ~bent'[p] => \A h \in jobs' : h.peer = p => Holds(h, log'[p])
    <3> DEFINE i == Job("import", p, "list")
    <3>1. i.peer = p /\ i.step = "list" /\ i \in jobs'
      BY <1>12 DEF Job, ImportBackup
    <3>2. bent'[p] = (bent[p] \/ \E k \in jobs : k.peer = p /\ k.step \in {"stat", "wipe", "drop"})
      BY <1>12 DEF ImportBackup
    <3>3. ASSUME ~bent'[p], NEW h \in jobs', h.peer = p PROVE h.step \notin {"stat", "wipe", "drop"}
      <4>1. CASE h \in jobs
        BY <3>2, <3>3, <4>1
      <4>2. CASE \E k \in jobs : k.step = "wipe" /\ h = [k EXCEPT !.ids = {}]
        <5>1. PICK k \in jobs : k.step = "wipe" /\ h = [k EXCEPT !.ids = {}]
          BY <4>2
        <5>2. h.peer = k.peer
          BY <5>1 DEF ConversationTyped, JobsTyped, JobTyped, Work
        <5>3. QED
          BY <3>2, <3>3, <5>1, <5>2
      <4>3. CASE \E q \in Thread : h = Job("import", q, "list")
        BY <4>3 DEF Job
      <4>4. QED
        BY <1>12, <4>1, <4>2, <4>3 DEF ImportBackup
    <3> HIDE DEF i
    <3>4. QED
      BY <3>1, <3>3 DEF Owing, Holds
  <2>2. QED
    BY <2>1 DEF CountsHold, Counted, Owing, Holds
<1>13. ASSUME NEW p \in Thread, Arrives(p) PROVE CountsHold'
  <2> DEFINE h == Job("arrive", p, "count")
             ms == log[p] \cup {[id |-> texts + 1, seen |-> "unread", form |-> "sent"]}
  <2>1. p \in Thread /\ moves \in Nat
    BY <1>13 DEF Arrives, ConversationTyped, ComposerTyped
  <2>2. h.peer = p /\ h.step = "count"
    BY <2>1, JobMade DEF Kind, Steps
  <2>3. jobs' = (jobs \ {}) \cup {h} /\ Logs(p, ms, {}) /\ stat' = stat
    BY <1>13 DEF Arrives, Comes, Starts
  <2> HIDE DEF h, ms
  <2>4. Owing(h) /\ Holds(h, ms)
    BY <2>2 DEF Owing, Holds
  <2>5. QED
    BY <2>1, <2>2, <2>3, <2>4, CountedLogged
<1>14. ASSUME NEW p \in Thread, SentElsewhere(p) PROVE CountsHold'
  <2> DEFINE h == Job("arrive", p, "count")
             ms == log[p] \cup {[id |-> texts + 1, seen |-> "mine", form |-> "sent"]}
  <2>1. p \in Thread /\ moves \in Nat
    BY <1>14 DEF SentElsewhere, ConversationTyped, ComposerTyped
  <2>2. h.peer = p /\ h.step = "count"
    BY <2>1, JobMade DEF Kind, Steps
  <2>3. jobs' = (jobs \ {}) \cup {h} /\ Logs(p, ms, {}) /\ stat' = stat
    BY <1>14 DEF SentElsewhere, Comes, Starts
  <2> HIDE DEF h, ms
  <2>4. Owing(h) /\ Holds(h, ms)
    BY <2>2 DEF Owing, Holds
  <2>5. QED
    BY <2>1, <2>2, <2>3, <2>4, CountedLogged
<1>15. ASSUME NEW p \in Thread, Touch(p) PROVE CountsHold'
  BY <1>15, SummaryOfNone DEF Touch, Starts, Moves, CountsHold, Counted, Owing, Holds, Job
<1>16. ASSUME NEW p \in Thread, NEW m \in log[p], EditEnvelope(p, m) PROVE CountsHold'
  <2> DEFINE h == Job("read", p, "count")
             ms == (log[p] \ {m}) \cup {[m EXCEPT !.form = "edited"]}
  <2>1. p \in Thread /\ moves \in Nat
    BY <1>16 DEF EditEnvelope, ConversationTyped, ComposerTyped
  <2>2. h.peer = p /\ h.step = "count"
    BY <2>1, JobMade DEF Kind, Steps
  <2>3. jobs' = (jobs \ {}) \cup {h} /\ Logs(p, ms, {}) /\ stat' = stat
    BY <1>16 DEF EditEnvelope, RevisedByPeer, Alters, Starts
  <2> HIDE DEF h, ms
  <2>4. Owing(h) /\ Holds(h, ms)
    BY <2>2 DEF Owing, Holds
  <2>5. QED
    BY <2>1, <2>2, <2>3, <2>4, CountedLogged
<1>17. ASSUME NEW p \in Thread, NEW m \in log[p], DeleteEnvelope(p, m) PROVE CountsHold'
  <2> DEFINE h == Job("read", p, "count")
             ms == (log[p] \ {m}) \cup {[m EXCEPT !.form = "deleted"]}
  <2>1. p \in Thread /\ moves \in Nat
    BY <1>17 DEF DeleteEnvelope, ConversationTyped, ComposerTyped
  <2>2. h.peer = p /\ h.step = "count"
    BY <2>1, JobMade DEF Kind, Steps
  <2>3. jobs' = (jobs \ {}) \cup {h} /\ Logs(p, ms, {}) /\ stat' = stat
    BY <1>17 DEF DeleteEnvelope, RevisedByPeer, Alters, Starts
  <2> HIDE DEF h, ms
  <2>4. Owing(h) /\ Holds(h, ms)
    BY <2>2 DEF Owing, Holds
  <2>5. QED
    BY <2>1, <2>2, <2>3, <2>4, CountedLogged
<1>18. ASSUME NEW p \in Thread, NEW m \in log[p], p = open, ReadMessage(m) PROVE CountsHold'
  <2> DEFINE h == Job("read", open, "count")
             ms == (log[open] \ {m}) \cup {[m EXCEPT !.seen = "read"]}
  <2>1. open \in Thread /\ moves \in Nat
    BY <1>18 DEF ReadMessage, ConversationTyped, ComposerTyped
  <2>2. h.peer = open /\ h.step = "count"
    BY <2>1, JobMade DEF Kind, Steps
  <2>3. jobs' = (jobs \ {}) \cup {h} /\ Logs(open, ms, {}) /\ stat' = stat
    BY <1>18 DEF ReadMessage, Starts
  <2> HIDE DEF h, ms
  <2>4. Owing(h) /\ Holds(h, ms)
    BY <2>2 DEF Owing, Holds
  <2>5. QED
    BY <2>1, <2>2, <2>3, <2>4, CountedLogged
<1>19. ASSUME NEW p \in Thread, NEW m \in log[p], p = open, SendEdit(m) PROVE CountsHold'
  BY <1>19, SummaryOfNone DEF SendEdit, Revise, Starts, Moves, CountsHold, Counted, Owing, Holds, Job
<1>20. ASSUME NEW p \in Thread, NEW m \in log[p], p = open, SendDelete(m) PROVE CountsHold'
  BY <1>20, SummaryOfNone DEF SendDelete, Revise, Starts, Moves, CountsHold, Counted, Owing, Holds, Job
<1>21. ASSUME NEW p \in Thread, PinEnvelope(p) PROVE CountsHold'
  BY <1>21 DEF PinEnvelope, Mark, Writes, Moves, CountsHold, Counted, Owing, Holds
<1>22. ASSUME NEW p \in Thread, Refresh(p) PROVE CountsHold'
  BY <1>22, SummaryOfNone DEF Refresh, Rewrite, Starts, Moves, CountsHold, Counted, Owing, Holds, Job
<1>23. ASSUME NEW p \in Thread, Reconcile(p) PROVE CountsHold'
  BY <1>23, SummaryOfNone DEF Reconcile, Rewrite, Starts, Moves, CountsHold, Counted, Owing, Holds, Job
<1>24. ASSUME NEW j \in jobs, SubmitFails(j) PROVE CountsHold'
  BY <1>24 DEF SubmitFails, JobEnds, CountsHold, Counted, Owing, Holds
<1>25. ASSUME NEW j \in jobs, StoreSent(j) PROVE CountsHold'
  <2> DEFINE h == [j EXCEPT !.step = "count"]
             ms == log[j.peer] \cup {[id |-> j.text, seen |-> "mine", form |-> "sent"]}
  <2>1. j \in Work /\ j.peer \in Thread
    BY DEF ConversationTyped, JobsTyped, JobTyped, Work
  <2>2. h.peer = j.peer /\ h.step = "count"
    BY <2>1 DEF Work
  <2>3. jobs' = (jobs \ {j}) \cup {h} /\ Logs(j.peer, ms, {j}) /\ stat' = stat
    BY <1>25 DEF StoreSent, Goes
  <2> HIDE DEF h, ms
  <2>4. Owing(h) /\ Holds(h, ms)
    BY <2>2 DEF Owing, Holds
  <2>5. QED
    BY <2>1, <2>2, <2>3, <2>4, CountedLogged
<1>26. ASSUME NEW j \in jobs, ForgetDraft(j) PROVE CountsHold'
  BY <1>26, SummaryOfNone DEF ForgetDraft, Writes, Goes, CountsHold, Counted, Owing, Holds, Job, LogsTyped,
     FlagsTyped, ComposerTyped, ConversationTyped, JobsTyped, JobTyped, Work
<1>27. ASSUME NEW j \in jobs, ClearInput(j) PROVE CountsHold'
  BY <1>27 DEF ClearInput, JobEnds, CountsHold, Counted, Owing, Holds
<1>28. ASSUME NEW j \in jobs, CountThread(j) PROVE CountsHold'
  <2> DEFINE h == [j EXCEPT !.step = "stat", !.seen = Summary(log[j.peer])]
  <2>1. j \in Work /\ j.peer \in Thread
    BY DEF ConversationTyped, JobsTyped, JobTyped, Work
  <2>2. h.peer = j.peer /\ h.step = "stat" /\ h.seen = Summary(log[j.peer])
    BY <2>1 DEF Work
  <2>3. /\ jobs' = (jobs \ {j}) \cup {h} /\ UNCHANGED <<log, bent>>
        /\ stat' = stat
    BY <1>28 DEF CountThread, Goes
  <2> HIDE DEF h
  <2>4. Owing(h) /\ Holds(h, log[j.peer])
    BY <2>2 DEF Owing, Holds
  <2>5. QED
    BY <2>1, <2>2, <2>3, <2>4, CountedMoved
<1>29. ASSUME NEW j \in jobs, PutStat(j) PROVE CountsHold'
  <2> DEFINE h == [j EXCEPT !.step = "get"]
  <2>1. j \in Work /\ j.peer \in Thread /\ j.step = "stat"
    BY <1>29 DEF PutStat, ConversationTyped, JobsTyped, JobTyped, Work
  <2>2. h.peer = j.peer /\ h.step = "get"
    BY <2>1 DEF Work
  <2>3. /\ jobs' = (jobs \ {j}) \cup {h} \/ jobs' = jobs \ {j}
        /\ stat' = [stat EXCEPT ![j.peer] = j.seen] /\ UNCHANGED <<log, bent>>
    BY <1>29 DEF PutStat, Goes, JobEnds
  <2> HIDE DEF h
  <2>4. /\ \A p \in Thread : p # j.peer => stat'[p] = stat[p]
        /\ stat'[j.peer] = j.seen
    BY <2>1, <2>3 DEF ConversationTyped, LogsTyped
  <2>5. ~bent[j.peer] => j.seen = Summary(log[j.peer])
    BY <2>1 DEF CountsHold, Counted, Holds
  <2>6. Holds(h, log[j.peer])
    BY <2>2 DEF Holds
  <2>7. CASE jobs' = (jobs \ {j}) \cup {h}
    BY <2>2, <2>3, <2>4, <2>5, <2>6, <2>7, CountedMoved
  <2>8. CASE jobs' = jobs \ {j}
    BY <2>3, <2>4, <2>5, <2>8, CountedEnds
  <2>9. QED
    BY <2>3, <2>7, <2>8
<1>30. ASSUME NEW j \in jobs, WipeListed(j) PROVE CountsHold'
  <2> DEFINE h == [j EXCEPT !.step = "drop"]
             ms == {m \in log[j.peer] : \A n \in j.ids : n.id # m.id}
  <2>1. j \in Work /\ j.peer \in Thread /\ j.step = "wipe"
    BY <1>30 DEF WipeListed, ConversationTyped, JobsTyped, JobTyped, Work
  <2>2. h.peer = j.peer /\ h.step = "drop"
    BY <2>1 DEF Work
  <2>3. jobs' = (jobs \ {j}) \cup {h} /\ Logs(j.peer, ms, {j}) /\ stat' = stat
    BY <1>30 DEF WipeListed, Goes
  <2>4. ~bent[j.peer] => ms = {}
    BY <2>1 DEF CountsHold, Counted, Holds
  <2> HIDE DEF h, ms
  <2>5. Owing(h) /\ (~bent[j.peer] => Holds(h, ms))
    BY <2>2, <2>4 DEF Owing, Holds
  <2>6. QED
    BY <2>1, <2>2, <2>3, <2>5, CountedLogged
<1>31. ASSUME NEW j \in jobs, DropStat(j) PROVE CountsHold'
  <2>1. j.peer \in Thread /\ j.step = "drop"
    BY <1>31 DEF DropStat, ConversationTyped, JobsTyped, JobTyped, Work
  <2>2. jobs' = jobs \ {j} /\ UNCHANGED <<log, bent>> /\ stat' = [stat EXCEPT ![j.peer] = NoStat]
    BY <1>31 DEF DropStat, JobEnds
  <2>3. \A p \in Thread : p # j.peer => stat'[p] = stat[p]
    BY <2>2 DEF ConversationTyped, LogsTyped
  <2>4. ~bent[j.peer] => log[j.peer] = {}
    BY <2>1 DEF CountsHold, Counted, Holds
  <2>5. stat'[j.peer] = NoStat
    BY <2>1, <2>2 DEF ConversationTyped, LogsTyped
  <2>6. ~bent[j.peer] => stat'[j.peer] = Summary(log[j.peer])
    BY <2>4, <2>5, SummaryOfNone
  <2>7. QED
    BY <2>2, <2>3, <2>6, CountedEnds
<1>32. ASSUME NEW j \in jobs, GetCard(j) PROVE CountsHold'
  <2> DEFINE h == [j EXCEPT !.step = "put", !.row = card[j.peer]]
  <2>1. j \in Work /\ j.peer \in Thread
    BY DEF ConversationTyped, JobsTyped, JobTyped, Work
  <2>2. h.peer = j.peer /\ h.step = "put"
    BY <2>1 DEF Work
  <2>3. /\ jobs' = (jobs \ {j}) \cup {h} /\ UNCHANGED <<log, bent>>
        /\ stat' = stat /\ j.step = "get"
    BY <1>32 DEF GetCard, Goes
  <2> HIDE DEF h
  <2>4. ~Owing(j) /\ Holds(h, log[j.peer])
    BY <2>2, <2>3 DEF Owing, Holds
  <2>5. QED
    BY <2>1, <2>2, <2>3, <2>4, CountedMoved
<1>33. ASSUME NEW j \in jobs, PutCard(j) PROVE CountsHold'
  <2>1. j \in Work /\ j.step = "put" /\ ~Owing(j) /\ UNCHANGED <<log, stat, bent>>
    BY <1>33 DEF PutCard, ConversationTyped, JobsTyped, JobTyped, Owing
  <2>2. CASE j.kind = "send"
    <3> DEFINE h == [j EXCEPT !.step = "note"]
    <3>1. h.peer = j.peer /\ h.step = "note"
      BY <2>1 DEF Work
    <3>2. jobs' = (jobs \ {j}) \cup {h}
      BY <1>33, <2>2 DEF PutCard, Goes
    <3> HIDE DEF h
    <3>3. Holds(h, log[j.peer])
      BY <3>1 DEF Holds
    <3>4. QED
      BY <2>1, <3>1, <3>2, <3>3, CountedMoved
  <2>3. CASE j.kind = "reconcile"
    <3> DEFINE h == [j EXCEPT !.step = "count", !.ids = {}]
    <3>1. h.peer = j.peer /\ h.step = "count"
      BY <2>1 DEF Work
    <3>2. jobs' = (jobs \ {j}) \cup {h}
      BY <1>33, <2>3 DEF PutCard, Goes
    <3> HIDE DEF h
    <3>3. Holds(h, log[j.peer])
      BY <3>1 DEF Holds
    <3>4. QED
      BY <2>1, <3>1, <3>2, <3>3, CountedMoved
  <2>4. CASE j.kind \notin {"send", "reconcile"}
    <3>1. jobs' = jobs \ {j}
      BY <1>33, <2>4 DEF PutCard, JobEnds
    <3>2. QED
      BY <2>1, <3>1, CountedEnds
  <2>5. QED
    BY <2>2, <2>3, <2>4
<1>34. ASSUME NEW j \in jobs, Revised(j) PROVE CountsHold'
  <2> DEFINE h == [j EXCEPT !.kind = "read", !.step = "count"]
  <2>1. j \in Work /\ j.peer \in Thread /\ j.step = "alter" /\ stat' = stat
    BY <1>34 DEF Revised, ConversationTyped, JobsTyped, JobTyped, Work
  <2>2. h.peer = j.peer /\ h.step = "count"
    BY <2>1 DEF Work
  <2> HIDE DEF h
  <2>3. CASE \E m \in log[j.peer] : m.id = j.text
    <3>1. PICK m \in log[j.peer] : Logs(j.peer, (log[j.peer] \ {m}) \cup {[m EXCEPT !.form = j.kind]}, {j})
      BY <1>34, <2>3 DEF Revised, Alters
    <3> DEFINE ms == (log[j.peer] \ {m}) \cup {[m EXCEPT !.form = j.kind]}
    <3>2. jobs' = (jobs \ {j}) \cup {h}
      BY <1>34, <2>3 DEF Revised, Goes, h
    <3>3. Logs(j.peer, ms, {j})
      BY <3>1
    <3> HIDE DEF ms
    <3>4. Owing(h) /\ Holds(h, ms)
      BY <2>2 DEF Owing, Holds
    <3>5. QED
      BY <2>1, <2>2, <3>2, <3>3, <3>4, CountedLogged
  <2>4. CASE ~ \E m \in log[j.peer] : m.id = j.text
    <3>1. jobs' = jobs \ {j} /\ UNCHANGED <<log, bent>> /\ ~Owing(j)
      BY <1>34, <2>1, <2>4 DEF Revised, JobEnds, Owing
    <3>2. QED
      BY <2>1, <3>1, CountedEnds
  <2>5. QED
    BY <2>3, <2>4
<1>35. ASSUME NEW j \in jobs, ListThread(j) PROVE CountsHold'
  <2> DEFINE s == IF log[j.peer] = {} THEN "drop" ELSE "reset"
             h == [j EXCEPT !.step = s]
  <2>1. j \in Work /\ j.peer \in Thread
    BY DEF ConversationTyped, JobsTyped, JobTyped, Work
  <2>2. h.peer = j.peer /\ h.step = s
    BY <2>1 DEF Work
  <2>3. jobs' = (jobs \ {j}) \cup {h} /\ UNCHANGED <<log, bent, stat>>
    BY <1>35 DEF ListThread, Goes
  <2> HIDE DEF h
  <2>4. Owing(h) /\ Holds(h, log[j.peer])
    BY <2>2 DEF Owing, Holds
  <2>5. QED
    BY <2>1, <2>2, <2>3, <2>4, CountedMoved
<1>36. ASSUME NEW j \in jobs, ResetStat(j) PROVE CountsHold'
  <2> DEFINE h == [j EXCEPT !.step = "count"]
  <2>1. j \in Work /\ j.peer \in Thread
    BY DEF ConversationTyped, JobsTyped, JobTyped, Work
  <2>2. h.peer = j.peer /\ h.step = "count"
    BY <2>1 DEF Work
  <2>3. /\ jobs' = (jobs \ {j}) \cup {h} /\ UNCHANGED <<log, bent>>
        /\ stat' = [stat EXCEPT ![j.peer] = NoStat]
    BY <1>36 DEF ResetStat, Goes
  <2> HIDE DEF h
  <2>4. Owing(h) /\ Holds(h, log[j.peer])
    BY <2>2 DEF Owing, Holds
  <2>5. \A p \in Thread : p # j.peer => stat'[p] = stat[p]
    BY <2>3 DEF ConversationTyped, LogsTyped
  <2>6. QED
    BY <2>1, <2>2, <2>3, <2>4, <2>5, CountedMoved
<1>37. ASSUME UNCHANGED conversationVars PROVE CountsHold'
  BY <1>37 DEF conversationVars, CountsHold, Counted, Owing, Holds
<1>38. QED
  BY <1>1, <1>2, <1>3, <1>4, <1>5, <1>6, <1>7, <1>8, <1>9, <1>10, <1>11, <1>12, <1>13, <1>14, <1>15, <1>16,
     <1>17, <1>18, <1>19, <1>20, <1>21, <1>22, <1>23, <1>24, <1>25, <1>26, <1>27, <1>28, <1>29, <1>30, <1>31,
     <1>32, <1>33, <1>34, <1>35, <1>36, <1>37 DEF ConversationNext

-----------------------------------------------------------------------------
(* The theorems.                                                           *)

\* No chat has been opened yet.
LEMMA ConversationStart == ConversationInit => ConversationInv
<1> SUFFICES ASSUME ConversationInit PROVE ConversationInv
  OBVIOUS
<1>1. NewRow \in Row /\ 0 \in 0 .. MaxTexts /\ 0 \in Nat
  BY ConversationAssumption DEF NewRow, Row
<1>2. ConversationTyped
  BY <1>1, CountOfNone DEF ConversationInit, ConversationTyped, ComposerTyped, RowsOfChats, LogsTyped,
     FlagsTyped, CopyTyped, JobsTyped
<1>3. RowIsFresh /\ MarksAreKept
  BY DEF ConversationInit, RowIsFresh, MarksAreKept
<1>4. SendsInput
  BY DEF ConversationInit, SendsInput, OneText, NewRow
<1>5. CountsHold
  BY SummaryOfNone DEF ConversationInit, CountsHold, Counted
<1>6. QED
  BY <1>2, <1>3, <1>4, <1>5 DEF ConversationInv

\* Every step keeps the invariant.
LEMMA ConversationStep == ConversationInv /\ [ConversationNext]_conversationVars => ConversationInv'
<1> SUFFICES ASSUME ConversationInv, [ConversationNext]_conversationVars PROVE ConversationInv'
  OBVIOUS
<1>1. ConversationTyped /\ RowIsFresh /\ MarksAreKept /\ SendsInput /\ CountsHold
  BY DEF ConversationInv
<1>2. ComposerTyped /\ RowsOfChats /\ LogsTyped /\ FlagsTyped /\ CopyTyped /\ JobsTyped
  BY <1>1 DEF ConversationTyped
<1>3. ComposerTyped' /\ RowsOfChats' /\ LogsTyped' /\ FlagsTyped' /\ CopyTyped' /\ JobsTyped'
  BY <1>1, <1>2, ComposerTypedStep, RowsOfChatsStep, LogsTypedStep, FlagsTypedStep, CopyTypedStep, JobsTypedStep
<1>4. RowIsFresh' /\ MarksAreKept' /\ SendsInput' /\ CountsHold'
  BY <1>1, RowIsFreshStep, MarksAreKeptStep, SendsInputStep, CountsHoldStep
<1>5. QED
  BY <1>3, <1>4 DEF ConversationInv, ConversationTyped

\* What the invariant says of the properties the runs check.
LEMMA ConversationGives ==
  ConversationInv => ConversationTypeOK /\ TypedIsKept /\ MarksAreKept /\ StatsFollow
<1> SUFFICES ASSUME ConversationInv PROVE ConversationTypeOK /\ TypedIsKept /\ MarksAreKept /\ StatsFollow
  OBVIOUS
<1>1. ConversationTyped /\ MarksAreKept /\ SendsInput /\ CountsHold
  BY DEF ConversationInv
<1>2. ConversationTypeOK
  BY <1>1 DEF ConversationTypeOK, ConversationTyped, ComposerTyped, RowsOfChats, LogsTyped, JobsTyped,
     JobTyped, Work, Count, Message
<1>3. TypedIsKept
  BY <1>1 DEF TypedIsKept, SendsInput, OneText
<1>4. StatsFollow
  BY <1>1 DEF StatsFollow, CountsHold, Counted
<1>5. QED
  BY <1>1, <1>2, <1>3, <1>4

\* The invariant holds in every state.
LEMMA ConversationAlways == ConversationSpec => []ConversationInv
BY ConversationStart, ConversationStep, PTL DEF ConversationSpec

\* The rows of the composer, the contacts, the messages and the sidebar, and the
\* handlers at work on them, are of their types in every behaviour.
THEOREM ConversationTypeCorrect == ConversationSpec => []ConversationTypeOK
BY ConversationAlways, ConversationGives, PTL

\* What the user typed last in a chat stands in its input or is being sent,
\* whichever chats are opened, messages sent and backups restored meanwhile,
\* unless it came while an earlier text of the chat was being sent.
THEOREM TypedTextIsKept == ConversationSpec => []TypedIsKept
BY ConversationAlways, ConversationGives, PTL

\* No rewriting of a contact row loses the fingerprint mark or the pin, unless
\* a change fell between the reading of the row and its writing.
THEOREM MarksStayAsSet == ConversationSpec => []MarksAreKept
BY ConversationAlways, ConversationGives, PTL

\* Once nobody is at work on a chat the sidebar's row is the summary of its
\* messages, unless they changed between a count and its writing.
THEOREM SidebarFollowsMessages == ConversationSpec => []StatsFollow
BY ConversationAlways, ConversationGives, PTL
=============================================================================
