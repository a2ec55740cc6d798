------------------------------ MODULE History -------------------------------
(***************************************************************************)
(* The server's history of one direct chat (message_history) as one client *)
(* reads it: syncDirectHistory pages through it from a cursor and applies  *)
(* row after row, while the same envelopes come over the websocket and the *)
(* user clears the chat or reloads the page (socket.ts, socketApi.ts,      *)
(* db.go).  Both ways open a ciphertext, and it opens once.  The chat is   *)
(* under way: the peer's first message, which carries the X3DH parameters, *)
(* has been read.  "delete" stands for the kinds without a ciphertext:     *)
(* deletions, reactions and pins.  States of rows, and how a row comes to  *)
(* be there, are DirectDelivery's; how a session heals is Sessions'.       *)
(***************************************************************************)
EXTENDS Naturals, Sequences, FiniteSets

CONSTANTS Page,        \* rows of a page (100)
          MaxRows,     \* bound: rows of the history
          MaxTasks,    \* bound: syncs and handlers at work
          MaxBreaks    \* bound: clears and reloads

ASSUME HistoryAssumption ==
  /\ {Page, MaxRows, MaxTasks, MaxBreaks} \subseteq Nat /\ Page > 0 /\ MaxRows > 0

VARIABLES
  table,    \* Seq([by, kind, target]) message_history of the thread, by id
  wire,     \* SUBSET id: envelopes this client has not acknowledged
  kept,     \* SUBSET [id, form]: the messages of the chat
  spent,    \* SUBSET id: ciphertexts that open no more
  session,  \* there is a session row for the peer
  cursor,   \* the stored history cursor of the chat
  syncing,  \* the chat is in syncingDirectHistory
  tasks,    \* syncs, and handlers of envelopes, at an await
  known,    \* SUBSET id: messages that have been stored at some time
  spoilt,   \* something happened that may cost the session, see SessionSurvives
  breaks

historyVars == <<table, wire, kept, spent, session, cursor, syncing, tasks, known, spoilt, breaks>>

Row == [by : {"peer", "me"}, kind : {"message", "edit", "delete"}, target : 0 .. MaxRows]
Rows == DOMAIN table
Stored(id) == [id |-> id, form |-> "sent"]
Found(id) == \E m \in kept : m.id = id

HistoryInit ==
  /\ table = <<[by |-> "peer", kind |-> "message", target |-> 0]>>
  /\ wire = {} /\ kept = {Stored(1)} /\ spent = {1} /\ session = TRUE
  /\ cursor = 1 /\ syncing = FALSE /\ tasks = {}
  /\ known = {1} /\ spoilt = FALSE /\ breaks = 0

-----------------------------------------------------------------------------
(* What others and the user do.                                            *)

Grows(row) == Len(table) < MaxRows /\ table' = Append(table, row)

\* The peer's envelope is accepted and on its way.
Accepted(kind, target) ==
  /\ kind = "message" <=> target = 0
  /\ target # 0 => table[target].by = "peer" /\ table[target].kind = "message"
  /\ Grows([by |-> "peer", kind |-> kind, target |-> target])
  /\ wire' = wire \cup {Len(table) + 1}
  /\ UNCHANGED <<kept, spent, session, cursor, syncing, tasks, known, spoilt, breaks>>

\* A message of the user is stored and accepted.
Sends ==
  /\ session
  /\ Grows([by |-> "me", kind |-> "message", target |-> 0])
  /\ kept' = kept \cup {Stored(Len(table) + 1)}
  /\ UNCHANGED <<wire, spent, session, cursor, syncing, tasks, known, spoilt, breaks>>

Break == breaks < MaxBreaks /\ breaks' = breaks + 1

\* handleClearChat.
Clear ==
  /\ kept # {} /\ Break
  /\ kept' = {} /\ spoilt' = TRUE
  /\ UNCHANGED <<table, wire, spent, session, cursor, syncing, tasks, known>>

\* The page is loaded anew; what was not acknowledged comes again.
ReloadChat ==
  /\ tasks # {} /\ Break
  /\ tasks' = {} /\ syncing' = FALSE
  /\ spoilt' = (spoilt \/ \E t \in tasks : t.step = "store")
  /\ UNCHANGED <<table, wire, kept, spent, session, cursor, known>>

\* The reset and repair exchange: a new session, which opens nothing of the old.
Healed ==
  /\ ~session
  /\ session' = TRUE /\ spent' = Rows
  /\ UNCHANGED <<table, wire, kept, cursor, syncing, tasks, known, spoilt, breaks>>

-----------------------------------------------------------------------------
(* One row or envelope.                                                    *)

Begins(t) == Cardinality(tasks) < MaxTasks /\ tasks' = tasks \cup {t}
Goes(t, step) == tasks' = (tasks \ {t}) \cup {[t EXCEPT !.step = step]}

\* acknowledgeOfflineEnvelope.
Answers(t) == tasks' = tasks \ {t} /\ wire' = wire \ {t.id} /\ UNCHANGED <<cursor, syncing>>

\* finally: the chat leaves syncingDirectHistory, whoever else syncs it.
SyncLeaves(t) == tasks' = tasks \ {t} /\ syncing' = FALSE /\ UNCHANGED <<cursor, wire>>

\* The next row; the cursor moves when the page is through.
NextRow(t) ==
  /\ UNCHANGED wire
  /\ IF t.id < t.last
     THEN /\ tasks' = (tasks \ {t}) \cup {[t EXCEPT !.step = "look", !.id = @ + 1]}
          /\ UNCHANGED <<cursor, syncing>>
     ELSE /\ cursor' = t.last
          /\ IF t.last - t.at < Page
             THEN tasks' = tasks \ {t} /\ syncing' = FALSE
             ELSE /\ tasks' = (tasks \ {t}) \cup {[t EXCEPT !.step = "fetch", !.at = t.last]}
                  /\ UNCHANGED syncing

Done(t) == IF t.kind = "live" THEN Answers(t) ELSE NextRow(t)

Changed(id, form) == {IF m.id = id THEN [m EXCEPT !.form = form] ELSE m : m \in kept}

\* applyDirectHistoryRecord or the branch of onmessage, up to decryptInSession:
\* a stored message is not opened again, nor, here, an edit whose target is
\* gone or was edited; what has no ciphertext is applied.
Look(t) ==
  /\ t.step = "look"
  /\ LET row == table[t.id]
         idle == \/ row.by = "me"
                 \/ row.kind = "message" /\ Found(t.id)
                 \/ row.kind = "edit" /\ t.kind = "sync"
                      /\ \A m \in kept : m.id = row.target => m.form = "edited" IN
       IF row.kind = "delete" \/ idle
       THEN /\ kept' = IF row.kind = "delete" THEN Changed(row.target, "deleted") ELSE kept
            /\ Done(t) /\ UNCHANGED spoilt
       ELSE /\ Goes(t, "open")
            /\ spoilt' = (spoilt \/ \E u \in tasks \ {t} : u.step \in {"open", "store"} /\ u.id = t.id)
            /\ UNCHANGED <<kept, cursor, syncing, wire>>
  /\ UNCHANGED <<table, spent, session, known, breaks>>

\* decryptInSession opens it: the session, or the key in it, has moved on.
Opens(t) ==
  /\ t.step = "open" /\ session /\ t.id \notin spent
  /\ spent' = spent \cup {t.id}
  /\ spoilt' = (spoilt \/ (t.kind = "sync" /\ table[t.id].kind = "edit" /\ t.id \in wire))
  /\ Goes(t, "store")
  /\ UNCHANGED <<table, wire, kept, session, cursor, syncing, known, breaks>>

\* Mutant: a row that does not open is passed over.
SyncPassesOver(t) ==
  /\ t.kind = "sync" /\ t.step = "open" /\ (~session \/ t.id \in spent)
  /\ session' = (session /\ t.id # 1)
  /\ NextRow(t)
  /\ UNCHANGED <<table, kept, spent, known, spoilt, breaks>>

\* It does not open: the sync ends where it is; with X3DH parameters the
\* session has been deleted.
SyncStops(t) ==
  /\ t.kind = "sync" /\ t.step = "open" /\ (~session \/ t.id \in spent)
  /\ session' = (session /\ t.id # 1)
  /\ SyncLeaves(t)
  /\ UNCHANGED <<table, kept, spent, known, spoilt, breaks>>

\* The envelope does not open: the session goes, the peer is asked for a
\* reset, and the envelope is acknowledged.
LiveFails(t) ==
  /\ t.kind = "live" /\ t.step = "open" /\ (~session \/ t.id \in spent)
  /\ session' = FALSE
  /\ Answers(t)
  /\ UNCHANGED <<table, kept, spent, known, spoilt, breaks>>

\* addMessageAndSync or markMessageEdited.
Keeps(t) ==
  /\ t.step = "store"
  /\ IF table[t.id].kind = "message"
     THEN kept' = kept \cup {Stored(t.id)} /\ known' = known \cup {t.id}
     ELSE kept' = Changed(table[t.id].target, "edited") /\ UNCHANGED known
  /\ Done(t)
  /\ UNCHANGED <<table, spent, session, spoilt, breaks>>

\* onmessage.
Receives(id) ==
  /\ id \in wire /\ \A t \in tasks : t.kind = "live" => t.id # id
  /\ Begins([kind |-> "live", nr |-> 0, step |-> "look", at |-> 0, id |-> id, last |-> id])
  /\ UNCHANGED <<table, wire, kept, spent, session, cursor, syncing, known, spoilt, breaks>>

-----------------------------------------------------------------------------
(* syncDirectHistory.                                                      *)

\* On opening the chat and on auth_success; then the link is waited for.
SyncCalled ==
  /\ ~syncing
  /\ \E n \in 1 .. MaxTasks :
       /\ {k \in 1 .. n : \A t \in tasks : t.nr # k} = {n}
       /\ Begins([kind |-> "sync", nr |-> n, step |-> "ready", at |-> 0, id |-> 0, last |-> 0])
  /\ UNCHANGED <<table, wire, kept, spent, session, cursor, syncing, known, spoilt, breaks>>

\* getDirectHistoryCursor, or the beginning when the chat is empty.
SyncStarts(t) ==
  /\ t.step = "ready"
  /\ syncing' = TRUE
  /\ tasks' = (tasks \ {t}) \cup {[t EXCEPT !.step = "fetch", !.at = IF kept = {} THEN 0 ELSE cursor]}
  /\ UNCHANGED <<table, wire, kept, spent, session, cursor, known, spoilt, breaks>>

\* No link after five seconds.
SyncDropped(t) ==
  /\ t.step = "ready" /\ tasks' = tasks \ {t}
  /\ UNCHANGED <<table, wire, kept, spent, session, cursor, syncing, known, spoilt, breaks>>

\* fetchDirectHistory and ListDirectMessageHistory; nothing new ends the sync.
Fetches(t) ==
  /\ t.step = "fetch" /\ t.at < Len(table)
  /\ LET last == IF t.at + Page < Len(table) THEN t.at + Page ELSE Len(table) IN
       tasks' = (tasks \ {t}) \cup {[t EXCEPT !.step = "look", !.id = t.at + 1, !.last = last]}
  /\ UNCHANGED <<table, wire, kept, spent, session, cursor, syncing, known, spoilt, breaks>>

FetchEnds(t) ==
  /\ t.step = "fetch"
  /\ SyncLeaves(t)
  /\ UNCHANGED <<table, kept, spent, session, known, spoilt, breaks>>

HistoryNext ==
  \/ \E kind \in {"message", "edit", "delete"}, target \in {0} \cup Rows : Accepted(kind, target)
  \/ Sends \/ Clear \/ ReloadChat \/ Healed \/ SyncCalled
  \/ \E id \in wire : Receives(id)
  \/ \E t \in tasks :
       \/ Look(t) \/ Opens(t) \/ SyncStops(t) \/ LiveFails(t) \/ Keeps(t)
       \/ SyncStarts(t) \/ SyncDropped(t) \/ Fetches(t) \/ FetchEnds(t)

HistorySpec == HistoryInit /\ [][HistoryNext]_historyVars

-----------------------------------------------------------------------------
Task == [kind : {"live", "sync"}, nr : Nat, step : {"ready", "fetch", "look", "open", "store"},
         at : Nat, id : Nat, last : Nat]

HistoryTypeOK ==
  /\ table \in Seq(Row) /\ wire \cup spent \cup known \subseteq Rows /\ cursor \in {0} \cup Rows
  /\ kept \subseteq [id : Rows, form : {"sent", "edited", "deleted"}]
  /\ {session, syncing, spoilt} \subseteq BOOLEAN /\ breaks \in Nat
  /\ tasks \subseteq Task
  /\ \A t \in tasks : t.at \in {0} \cup Rows /\ (t.step \in {"look", "open", "store"} => {t.id, t.last} \subseteq Rows)

\* Every message of the peer below the cursor has been stored, whatever syncs
\* and envelopes overlapped and wherever a row did not open: no later sync
\* would ask for it again.
NothingSkipped ==
  \A id \in 1 .. cursor : table[id].by = "peer" /\ table[id].kind = "message" => id \in known

\* Reading the history costs the session only if the chat was cleared, the
\* page was reloaded between opening and storing, the same ciphertext was
\* being opened twice, or an edit was read there before its envelope came.
SessionSurvives == session \/ spoilt

\* The history and the socket agree on what has been read.
HistoryAgrees == NothingSkipped /\ SessionSurvives
=============================================================================
