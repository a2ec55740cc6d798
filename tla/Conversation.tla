---------------------------- MODULE Conversation ----------------------------
(***************************************************************************)
(* Direct chats on one device: the composer of Chat.tsx and its drafts,    *)
(* and the handlers that keep a chat's contact row, its messages and the   *)
(* threadStats row the sidebar shows (db.ts, socketMessageStore.ts,        *)
(* socketApi.ts, socket.ts).  Some change fields of a row, others read the *)
(* row, wait, and put it back whole.  A backup copies contacts and         *)
(* messages and puts them back (backup.ts); its encryption is left out.    *)
(* A step is what runs between two awaits; handlers for the same chat run  *)
(* side by side.                                                           *)
(***************************************************************************)
EXTENDS Naturals, FiniteSets

CONSTANTS Thread,      \* contacts with a chat
          NoThread,    \* no chat is open; as an input: nothing overrides the stored draft
          MaxTexts,    \* bound: texts typed and messages received
          MaxMoves,    \* bound: clicks, envelopes and answers that start something
          MaxJobs      \* bound: handlers at work

ASSUME ConversationAssumption == NoThread \notin Thread \cup Nat /\ {MaxTexts, MaxMoves, MaxJobs} \subseteq Nat

VARIABLES open,     \* activePeerKey
          typed,    \* [Thread -> text] draftOverrides; 0 is the empty text
          saving,   \* draftSyncTimerRef
          card,     \* [Thread -> row] contacts: draft, pinnedMsgId, the user's marks, archived
          log,      \* [Thread -> SUBSET [id, seen, form]] messages
          stat,     \* [Thread -> [last, form, unread]] threadStats
          copy,     \* [Thread -> [card, log]] the backup file, or <<>>
          jobs,     \* handlers waiting at an await
          texts, moves,
          wish,     \* [Thread -> row] what the user and the code last asked of the row
          hasty,    \* [Thread -> BOOLEAN] typed or restored while a send of the chat was under way
          torn,     \* [Thread -> BOOLEAN] a row changed between a read and the put after it
          bent      \* [Thread -> BOOLEAN] messages changed between a count and its put

conversationVars == <<open, typed, saving, card, log, stat, copy, jobs, texts, moves, wish, hasty, torn, bent>>

Row == [draft : 0 .. MaxTexts, pin : 0 .. 1, mark : 0 .. 1, archived : BOOLEAN]
NewRow == [draft |-> 0, pin |-> 0, mark |-> 0, archived |-> FALSE]
NoStat == [last |-> 0, form |-> "sent", unread |-> 0]
Form == {"sent", "edited", "deleted"}
Steps == {"seal", "alter", "count", "stat", "get", "put", "note", "clear", "wipe", "drop", "list", "reset"}
Job(kind, p, step) ==
  [kind |-> kind, peer |-> p, step |-> step, text |-> 0, row |-> NewRow, seen |-> NoStat,
   ids |-> {}, nr |-> moves]

\* syncThreadStats: the latest message, and how many of the peer's are unread.
Summary(ms) ==
  IF ms = {} THEN NoStat
  ELSE LET latest == CHOOSE m \in ms : \A n \in ms : n.id <= m.id IN
       [last |-> latest.id, form |-> latest.form,
        unread |-> Cardinality({m \in ms : m.seen = "unread"})]

\* messageInput.
Input(p) == IF typed[p] = NoThread THEN card[p].draft ELSE typed[p]

ConversationInit ==
  /\ open = NoThread /\ saving = FALSE
  /\ typed = [p \in Thread |-> NoThread]
  /\ card = [p \in Thread |-> NewRow] /\ wish = card
  /\ log = [p \in Thread |-> {}] /\ stat = [p \in Thread |-> NoStat]
  /\ copy = <<>> /\ jobs = {} /\ texts = 0 /\ moves = 0
  /\ hasty = [p \in Thread |-> FALSE]
  /\ torn = hasty /\ bent = hasty

-----------------------------------------------------------------------------
Moves == moves < MaxMoves /\ moves' = moves + 1
Starts(j) == Moves /\ Cardinality(jobs) < MaxJobs /\ jobs' = jobs \cup {j}
Goes(j, next) == jobs' = (jobs \ {j}) \cup {next}
JobEnds(j) == jobs' = jobs \ {j}

\* A row of p is written, by job j or by nobody who had read it.
Writes(p, row, own) ==
  /\ card' = [card EXCEPT ![p] = row]
  /\ torn' = [torn EXCEPT ![p] = @ \/ \E k \in jobs \ own : k.peer = p /\ k.step = "put"]

Logs(p, ms, own) ==
  /\ log' = [log EXCEPT ![p] = ms]
  /\ bent' = [bent EXCEPT ![p] = @ \/ \E k \in jobs \ own : k.peer = p /\ k.step \in {"stat", "wipe", "drop"}]

-----------------------------------------------------------------------------
(* The composer.                                                           *)

\* setActivePeer: the effect on messageInput starts its timer again.
OpenChat(p) ==
  /\ p # open /\ Moves
  /\ open' = p /\ saving' = (p # NoThread)
  /\ UNCHANGED <<typed, card, log, stat, jobs, texts, wish, hasty, torn, bent, copy>>

\* A text of the chat is being sent.
Sending(p) == \E j \in jobs : j.kind = "send" /\ j.peer = p

\* handleComposerChange, handleForwardMessage: another text stands in the input.
Type ==
  /\ open # NoThread /\ texts < MaxTexts
  /\ texts' = texts + 1
  /\ typed' = [typed EXCEPT ![open] = texts + 1]
  /\ saving' = TRUE
  /\ wish' = [wish EXCEPT ![open].draft = texts + 1]
  /\ hasty' = [hasty EXCEPT ![open] = @ \/ Sending(open)]
  /\ UNCHANGED <<open, card, log, stat, jobs, moves, torn, bent, copy>>

\* The timer of 250 ms; one change ends it and starts another.
SaveDraft ==
  /\ saving /\ saving' = FALSE
  /\ Writes(open, [card[open] EXCEPT !.draft = Input(open)], {})
  /\ UNCHANGED <<open, typed, log, stat, jobs, texts, moves, wish, hasty, bent, copy>>

\* submitCurrentMessage, as long as the input is not cleared; send() encrypts first.
Submit ==
  /\ open # NoThread /\ Input(open) # 0
  /\ Starts([Job("send", open, "seal") EXCEPT !.text = Input(open)])
  /\ UNCHANGED <<open, typed, saving, card, log, stat, texts, wish, hasty, torn, bent, copy>>

\* handleSelectedFile and, from startRecording on, handleVoiceUpload: what is
\* sent is not the input, and goes to the chat it was begun in.
SendFile ==
  /\ open # NoThread /\ texts < MaxTexts /\ texts' = texts + 1
  /\ Starts([Job("file", open, "seal") EXCEPT !.text = texts + 1])
  /\ UNCHANGED <<open, typed, saving, card, log, stat, wish, hasty, torn, bent, copy>>

\* No session, no upload, or the authentication took too long: the input stays.
SubmitFails(j) ==
  /\ j.step = "seal" /\ JobEnds(j)
  /\ UNCHANGED <<open, typed, saving, card, log, stat, texts, moves, wish, hasty, torn, bent, copy>>

\* addMessageAndSync of send().
StoreSent(j) ==
  /\ j.step = "seal"
  /\ Logs(j.peer, log[j.peer] \cup {[id |-> j.text, seen |-> "mine", form |-> "sent"]}, {j})
  /\ Goes(j, [j EXCEPT !.step = "count"])
  /\ UNCHANGED <<open, typed, saving, card, stat, texts, moves, wish, hasty, torn, copy>>

\* Back in submitCurrentMessage: the stored draft is emptied,
ForgetDraft(j) ==
  /\ j.step = "note"
  /\ Writes(j.peer, [card[j.peer] EXCEPT !.draft = 0], {j})
  /\ Goes(j, [j EXCEPT !.step = "clear"])
  /\ UNCHANGED <<open, typed, saving, log, stat, texts, moves, wish, hasty, bent, copy>>

\* Mutant: the input of the chat that is open by now is emptied.
ClearsOpen(j) ==
  /\ j.step = "clear" /\ JobEnds(j)
  /\ typed' = IF open = NoThread THEN typed ELSE [typed EXCEPT ![open] = 0]
  /\ saving' = (open # NoThread)
  /\ wish' = [wish EXCEPT ![j.peer].draft = IF @ = j.text THEN 0 ELSE @]
  /\ UNCHANGED <<open, card, log, stat, texts, moves, hasty, torn, bent, copy>>

\* then the input of the chat it was sent in, whatever stands there now.
ClearInput(j) ==
  /\ j.step = "clear" /\ JobEnds(j)
  /\ typed' = [typed EXCEPT ![j.peer] = 0]
  /\ saving' = (saving \/ open = j.peer)
  /\ wish' = [wish EXCEPT ![j.peer].draft = IF @ = j.text THEN 0 ELSE @]
  /\ UNCHANGED <<open, card, log, stat, texts, moves, hasty, torn, bent, copy>>

-----------------------------------------------------------------------------
(* Messages and their counts.                                              *)

Comes(p, seen) ==
  /\ texts < MaxTexts /\ texts' = texts + 1
  /\ Starts(Job("arrive", p, "count"))
  /\ Logs(p, log[p] \cup {[id |-> texts + 1, seen |-> seen, form |-> "sent"]}, {})
  /\ UNCHANGED <<open, typed, saving, card, stat, wish, hasty, torn, copy>>

\* The message branch of onmessage, after decryptInSession.
Arrives(p) == Comes(p, "unread")

\* A direct_message of self_sync: it was sent from another of the user's devices.
SentElsewhere(p) == Comes(p, "mine")

\* The effect on unread messages of an open chat, sendReadReceipt.
ReadMessage(m) ==
  /\ open # NoThread /\ m.seen = "unread"
  /\ Starts(Job("read", open, "count"))
  /\ Logs(open, (log[open] \ {m}) \cup {[m EXCEPT !.seen = "read"]}, {})
  /\ UNCHANGED <<open, typed, saving, card, stat, texts, wish, hasty, torn, copy>>

\* updateMessageByMsgID: the message as it stands when the handler comes to it.
Alters(p, m, form, own) == Logs(p, (log[p] \ {m}) \cup {[m EXCEPT !.form = form]}, own)

\* handleEditMessage and handleDeleteMessage, of a message not yet deleted: the
\* edit is encrypted before the stored message is changed.
Revise(m, form) ==
  /\ open # NoThread /\ m.form # "deleted"
  /\ Starts([Job(form, open, "alter") EXCEPT !.text = m.id])
  /\ UNCHANGED <<open, typed, saving, card, log, stat, texts, wish, hasty, torn, bent, copy>>

SendEdit(m) == Revise(m, "edited")
SendDelete(m) == Revise(m, "deleted")

\* markMessageEdited and markMessageDeleted: an edit brings a deleted message back.
Revised(j) ==
  /\ j.step = "alter"
  /\ IF \E m \in log[j.peer] : m.id = j.text
     THEN /\ \E m \in log[j.peer] : m.id = j.text /\ Alters(j.peer, m, j.kind, {j})
          /\ Goes(j, [j EXCEPT !.kind = "read", !.step = "count"])
     ELSE JobEnds(j) /\ UNCHANGED <<log, bent>>
  /\ UNCHANGED <<open, typed, saving, card, stat, texts, moves, wish, hasty, torn, copy>>

\* The edit and the delete of a peer, or of another device of the user (self_sync).
RevisedByPeer(p, m, form) ==
  /\ Starts(Job("read", p, "count"))
  /\ Alters(p, m, form, {})
  /\ UNCHANGED <<open, typed, saving, card, stat, texts, wish, hasty, torn, copy>>

EditEnvelope(p, m) == RevisedByPeer(p, m, "edited")
DeleteEnvelope(p, m) == RevisedByPeer(p, m, "deleted")

\* A reaction or a receipt changes what the sidebar does not show, and has it
\* counted again.
Touch(p) ==
  /\ log[p] # {}
  /\ Starts(Job("read", p, "count"))
  /\ UNCHANGED <<open, typed, saving, card, log, stat, texts, wish, hasty, torn, bent, copy>>

\* syncThreadStats reads the messages,
CountThread(j) ==
  /\ j.step = "count"
  /\ Goes(j, [j EXCEPT !.step = "stat", !.seen = Summary(log[j.peer])])
  /\ UNCHANGED <<open, typed, saving, card, log, stat, texts, moves, wish, hasty, torn, bent, copy>>

\* and puts what it counted, or deletes the row of an empty thread; a message
\* goes on to upsertDirectContact.
PutStat(j) ==
  /\ j.step = "stat"
  /\ stat' = [stat EXCEPT ![j.peer] = j.seen]
  /\ IF j.kind \in {"read", "import", "reconcile"} THEN JobEnds(j) ELSE Goes(j, [j EXCEPT !.step = "get"])
  /\ UNCHANGED <<open, typed, saving, card, log, texts, moves, wish, hasty, torn, bent, copy>>

\* handleClearChat lists the messages,
ClearChat ==
  /\ open # NoThread
  /\ Starts([Job("clear", open, "wipe") EXCEPT !.ids = log[open]])
  /\ UNCHANGED <<open, typed, saving, card, log, stat, texts, wish, hasty, torn, bent, copy>>

\* deletes those,
WipeListed(j) ==
  /\ j.step = "wipe"
  /\ Logs(j.peer, {m \in log[j.peer] : \A n \in j.ids : n.id # m.id}, {j})
  /\ Goes(j, [j EXCEPT !.step = "drop"])
  /\ UNCHANGED <<open, typed, saving, card, stat, texts, moves, wish, hasty, torn, copy>>

\* Mutant: the row of the sidebar stays.
DropNothing(j) ==
  /\ j.step = "drop" /\ JobEnds(j)
  /\ UNCHANGED <<open, typed, saving, card, log, stat, texts, moves, wish, hasty, torn, bent, copy>>

\* and clearThreadStats deletes the row.
DropStat(j) ==
  /\ j.step = "drop" /\ JobEnds(j)
  /\ stat' = [stat EXCEPT ![j.peer] = NoStat]
  /\ UNCHANGED <<open, typed, saving, card, log, texts, moves, wish, hasty, torn, bent, copy>>

-----------------------------------------------------------------------------
(* The contact row.                                                        *)

\* handleToggleMute and the like: a field of the row is changed in place.
Mark(p, field) ==
  /\ Moves
  /\ Writes(p, [card[p] EXCEPT ![field] = 1 - @], {})
  /\ wish' = [wish EXCEPT ![p][field] = 1 - card[p][field]]
  /\ UNCHANGED <<open, typed, saving, log, stat, jobs, texts, hasty, bent, copy>>

\* handleVerifyIdentity, handleClearIdentityVerification.
Verify == open # NoThread /\ Mark(open, "mark")

TogglePin == open # NoThread /\ Mark(open, "pin")

\* handleDirectPinEnvelope, whichever chat is open.
PinEnvelope(p) == Mark(p, "pin")

\* handleToggleArchive: an archived chat is closed.
Archive ==
  /\ open # NoThread /\ Moves
  /\ Writes(open, [card[open] EXCEPT !.archived = ~@], {})
  /\ open' = IF card[open].archived THEN open ELSE NoThread
  /\ saving' = (saving /\ card[open].archived)
  /\ UNCHANGED <<typed, log, stat, jobs, texts, wish, hasty, bent, copy>>

Rewrite(p, job) ==
  /\ Starts(job)
  /\ UNCHANGED <<open, typed, saving, card, log, stat, texts, wish, hasty, torn, bent, copy>>

\* refreshContactProfile has its answer.
Refresh(p) == Rewrite(p, Job("refresh", p, "get"))

\* reconcileDirectContactsFromMessages comes to a chat that has messages.
Reconcile(p) ==
  \E m \in log[p] :
    m.id = Summary(log[p]).last /\ Rewrite(p, [Job("reconcile", p, "get") EXCEPT !.ids = {m}])

GetCard(j) ==
  /\ j.step = "get"
  /\ Goes(j, [j EXCEPT !.step = "put", !.row = card[j.peer]])
  /\ UNCHANGED <<open, typed, saving, card, log, stat, texts, moves, wish, hasty, torn, bent, copy>>

\* Mutant: the rewritten row has lost the fields that were not named.
BareRow(j) == [j.row EXCEPT !.mark = 0]

\* What each of the three puts: a message takes a chat out of the archive, and
\* so does reconcile when the last one was the peer's; it leaves pinnedMsgId out.
WholeRow(j) ==
  CASE j.kind \in {"send", "file", "arrive"} -> [j.row EXCEPT !.archived = FALSE]
    [] j.kind = "reconcile" ->
         [j.row EXCEPT !.pin = 0, !.archived = @ /\ \A m \in j.ids : m.seen = "mine"]
    [] OTHER -> j.row

PutCard(j) ==
  /\ j.step = "put"
  /\ Writes(j.peer, WholeRow(j), {j})
  /\ wish' = IF j.kind = "reconcile" THEN [wish EXCEPT ![j.peer].pin = 0] ELSE wish
  /\ CASE j.kind = "send" -> Goes(j, [j EXCEPT !.step = "note"])
       [] j.kind = "reconcile" -> Goes(j, [j EXCEPT !.step = "count", !.ids = {}])
       [] OTHER -> JobEnds(j)
  /\ UNCHANGED <<open, typed, saving, log, stat, texts, moves, hasty, bent, copy>>

-----------------------------------------------------------------------------
(* Backup.                                                                 *)

\* createBackup reads both tables at once.
ExportBackup ==
  /\ Moves
  /\ copy' = [p \in Thread |-> [card |-> card[p], log |-> log[p]]]
  /\ UNCHANGED <<open, typed, saving, card, log, stat, jobs, texts, wish, hasty, torn, bent>>

\* normalizeContact: the fields that a file does not bring back.
Restored(row) == [row EXCEPT !.pin = 0, !.mark = 0, !.archived = FALSE]

\* The transaction of restoreBackup, after which rebuildAllThreadStats goes
\* over the threads.  The messages get new keys: what handleClearChat had
\* listed is gone.
ImportBackup ==
  /\ copy # <<>> /\ Moves
  /\ Cardinality(jobs) + Cardinality(Thread) <= MaxJobs
  /\ card' = [p \in Thread |-> Restored(copy[p].card)]
  /\ log' = [p \in Thread |-> copy[p].log]
  /\ jobs' = {IF k.step = "wipe" THEN [k EXCEPT !.ids = {}] ELSE k : k \in jobs}
              \cup {Job("import", p, "list") : p \in Thread}
  /\ wish' = [p \in Thread |->
       [Restored(wish[p]) EXCEPT !.draft = IF typed[p] = NoThread THEN copy[p].card.draft ELSE @]]
  /\ torn' = [p \in Thread |-> torn[p] \/ \E k \in jobs : k.peer = p /\ k.step = "put"]
  /\ bent' = [p \in Thread |-> bent[p] \/ \E k \in jobs : k.peer = p /\ k.step \in {"stat", "wipe", "drop"}]
  /\ hasty' = [p \in Thread |-> hasty[p] \/ Sending(p)]
  /\ UNCHANGED <<open, typed, saving, stat, copy, texts>>

\* Which threads there are; the rows of all are deleted,
ListThread(j) ==
  /\ j.step = "list"
  /\ Goes(j, [j EXCEPT !.step = IF log[j.peer] = {} THEN "drop" ELSE "reset"])
  /\ UNCHANGED <<open, typed, saving, card, log, stat, texts, moves, wish, hasty, torn, bent, copy>>

\* and those of the listed ones are counted.
ResetStat(j) ==
  /\ j.step = "reset"
  /\ stat' = [stat EXCEPT ![j.peer] = NoStat]
  /\ Goes(j, [j EXCEPT !.step = "count"])
  /\ UNCHANGED <<open, typed, saving, card, log, texts, moves, wish, hasty, torn, bent, copy>>

-----------------------------------------------------------------------------
\* The page is loaded anew: what is in memory is gone, the rows stay.
ReloadPage ==
  /\ Moves
  /\ open' = NoThread /\ saving' = FALSE /\ jobs' = {}
  /\ typed' = [p \in Thread |-> NoThread]
  /\ wish' = [p \in Thread |-> [wish[p] EXCEPT !.draft = card[p].draft]]
  /\ bent' = [p \in Thread |-> bent[p] \/ \E j \in jobs : j.peer = p /\ j.step \in {"list", "reset", "count", "stat", "drop"}]
  /\ UNCHANGED <<card, log, stat, texts, hasty, torn, copy>>

ConversationNext ==
  \/ \E p \in Thread \cup {NoThread} : OpenChat(p)
  \/ Type \/ SaveDraft \/ Submit \/ ClearChat \/ Archive \/ ReloadPage
  \/ Verify \/ TogglePin \/ SendFile \/ ExportBackup \/ ImportBackup
  \/ \E p \in Thread :
       \/ Arrives(p) \/ SentElsewhere(p) \/ Touch(p)
       \/ \E m \in log[p] :
            \/ EditEnvelope(p, m) \/ DeleteEnvelope(p, m)
            \/ p = open /\ (ReadMessage(m) \/ SendEdit(m) \/ SendDelete(m))
       \/ PinEnvelope(p) \/ Refresh(p) \/ Reconcile(p)
  \/ \E j \in jobs :
       \/ SubmitFails(j) \/ StoreSent(j) \/ ForgetDraft(j) \/ ClearInput(j)
       \/ CountThread(j) \/ PutStat(j) \/ WipeListed(j) \/ DropStat(j)
       \/ GetCard(j) \/ PutCard(j) \/ Revised(j) \/ ListThread(j) \/ ResetStat(j)

ConversationSpec == ConversationInit /\ [][ConversationNext]_conversationVars

-----------------------------------------------------------------------------
ConversationTypeOK ==
  /\ open \in Thread \cup {NoThread} /\ saving \in BOOLEAN
  /\ \A p \in Thread :
       /\ typed[p] \in 0 .. MaxTexts \cup {NoThread}
       /\ {card[p], wish[p]} \subseteq Row
       /\ log[p] \subseteq [id : 1 .. MaxTexts, seen : {"mine", "unread", "read"}, form : Form]
       /\ stat[p].last \in 0 .. MaxTexts /\ stat[p].form \in Form
  /\ \A j \in jobs : j.peer \in Thread /\ j.step \in Steps
  /\ saving => open # NoThread

\* What the user typed last in a chat is in its input or on its way, whatever
\* chats were opened and messages sent meanwhile; only a text typed, or restored
\* from a backup, while an earlier one of the same chat was being sent is wiped
\* with that one.
TypedIsKept ==
  \A p \in Thread : hasty[p] \/ wish[p].draft \in {0, Input(p)} \/ torn[p]
                    \/ \E j \in jobs : j.kind = "send" /\ j.peer = p /\ j.text = wish[p].draft

\* A verified fingerprint and a pin stay as they were set, whatever rewrites
\* the contact row, unless a change fell between the reading of the row and
\* its writing.
MarksAreKept ==
  \A p \in Thread : torn[p] \/ (card[p].mark = wish[p].mark /\ card[p].pin = wish[p].pin)

\* When no handler is at work on a chat the sidebar's row says what its
\* messages are, unless they changed between a count and its put.
StatsFollow ==
  \A p \in Thread : bent[p] \/ stat[p] = Summary(log[p]) \/ \E j \in jobs : j.peer = p
=============================================================================
