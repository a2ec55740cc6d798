---------------------------- MODULE DeviceProofs ----------------------------
(***************************************************************************)
(* The account and the connection of a page, and the page as a whole: what *)
(* the runs check of them holds for any identities, PINs and servers, any  *)
(* number of handlers, sockets, timers and attempts.  The constants of     *)
(* MCDevice only name values; what is proved here uses none of them.       *)
(***************************************************************************)
EXTENDS MCDevice, ConversationProofs

-----------------------------------------------------------------------------
(* The account: the inductive invariant.                                   *)

DiskRow == [pin : Pin \cup {None}, box : [who : Name, pin : Pin \cup {None}],
            names : SUBSET Identity, nick : Name]
DataRow == [by : Identity, seal : Name]
Base == [name : Name, open : BOOLEAN]

\* Tasks name an identity, except those of a lock screen nobody is signed in behind.
TaskTyped(t) ==
  /\ t \in Waiting
  /\ t.do \notin {"verify", "open"} => t.who \in Identity
  /\ t.do \in {"hash", "seal"} => t.pin \in Pin

TasksTyped == \A t \in todo : TaskTyped(t)

\* A sealed copy is of an identity.
DiskTyped == disk \in DiskRow /\ (disk.box # NoBox => disk.box.who \in Identity)

StoreTyped ==
  /\ key \in Name /\ locked \in BOOLEAN /\ pin \in Pin \cup {None} /\ remembered \in BOOLEAN
  /\ base \in Base /\ vault \in Name /\ wiping \in {"no", "logout", "panic"}
  /\ wiped \subseteq Identity /\ rash \in BOOLEAN /\ late \in BOOLEAN

RowsTyped == rows \in [Name -> SUBSET DataRow]

AccountTyped == StoreTyped /\ DiskTyped /\ RowsTyped /\ TasksTyped

\* The keys in the store, the open database and the vault belong together.
KeysTogether ==
  /\ key # None => base = [name |-> key, open |-> TRUE] /\ vault = key
  /\ key = None => vault = None
  /\ ~Unwiped => key = None

\* A handler that writes, or changes the PIN, is one of the identity signed
\* in; during a wipe there is none, unless late or rash records it.
TasksAreOwn ==
  /\ Unwiped => \A t \in Writers \cup PinTasks : t.who = key
  /\ ~Unwiped /\ ~late => Writers = {}
  /\ ~Unwiped /\ ~rash => PinTasks = {}

\* Who is at the lock screen without being signed in, and who is signing in:
\* never both, and neither can sign another identity in over the present one.
Unlocks(t) == t.do = "open" \/ (t.do = "verify" /\ t.who = None)
EntersOnce ==
  Unwiped =>
    /\ \A t \in todo : t.do = "verify" => t.who \in {None, key}
    /\ key = None /\ (\E t \in todo : t.do \in {"verify", "open"}) => locked /\ remembered
    /\ \A t \in todo : t.do = "login" => key = None /\ ~locked
    /\ \A t, u \in todo : t.do = "login" /\ u.do = "login" => t = u
    /\ key = None /\ locked => remembered
    /\ key # None /\ disk.box # NoBox /\ (\E t \in todo : Unlocks(t)) => disk.box.who = key

\* The PIN in the store is the one on the disk; at most one handler changes
\* it, and the one that seals the box holds it.
PinInStep ==
  /\ Unwiped => pin = disk.pin
  /\ ~rash =>
       /\ \A t, u \in PinTasks : t = u
       /\ \A t \in PinTasks : t.do = "seal" => t.pin = disk.pin
       /\ (\A t \in PinTasks : t.do # "seal") /\ disk.box # NoBox /\ disk.pin # None =>
            disk.box.pin = disk.pin

\* What a wipe has to leave behind, from the moment it begins.
WipedIsGone ==
  /\ key \notin wiped
  /\ ~rash /\ ~late =>
       \A who \in wiped : /\ rows[who] = {} /\ \A n \in Name : \A r \in rows[n] : r.by # who
                          /\ disk.box.who # who /\ who \notin disk.names /\ disk.nick # who

AccountInv ==
  AccountTyped /\ KeysTogether /\ TasksAreOwn /\ EntersOnce /\ PinInStep /\ RowsAreOwn /\ WipedIsGone

\* A handler that begins is of its type.
LEMMA HandlerType ==
  ASSUME NEW do \in {"login", "verify", "open", "hash", "seal", "write", "profile"},
         NEW who \in Name, NEW p \in Pin \cup {None}, NEW secret \in BOOLEAN,
         do \notin {"verify", "open"} => who \in Identity, do \in {"hash", "seal"} => p \in Pin
  PROVE  /\ TaskTyped(Handler(do, who, p, secret))
         /\ Handler(do, who, p, secret).do = do
         /\ Handler(do, who, p, secret).who = who
         /\ Handler(do, who, p, secret).pin = p
BY DEF Handler, Waiting, TaskTyped

\* One more task of its type.
LEMMA TaskAdded ==
  ASSUME TasksTyped, NEW h, TaskTyped(h), todo' \subseteq todo \cup {h} PROVE TasksTyped'
BY DEF TasksTyped

\* Every step keeps the types of the waiting handlers.
LEMMA TasksTypedStep == ASSUME AccountTyped, TasksTyped, [AccountNext]_accountVars PROVE TasksTyped'
<1>1. ASSUME NEW who \in Identity, LoginBegins(who) PROVE TasksTyped'
  <2>1. TaskTyped(Handler("login", who, None, FALSE))
    BY HandlerType DEF Name
  <2>2. todo' \subseteq todo \cup {Handler("login", who, None, FALSE)}
    BY <1>1 DEF LoginBegins, Begins
  <2>3. QED
    BY <2>1, <2>2, TaskAdded DEF AccountTyped
<1>2. ASSUME NEW p \in Pin, UnlockBegins(p) PROVE TasksTyped'
  <2>1. TaskTyped(Handler("verify", key, p, p = pin))
    BY HandlerType, (p = pin) \in BOOLEAN DEF AccountTyped, StoreTyped, StoreTyped
  <2>2. todo' \subseteq todo \cup {Handler("verify", key, p, p = pin)}
    BY <1>2 DEF UnlockBegins, Begins
  <2>3. QED
    BY <2>1, <2>2, TaskAdded DEF AccountTyped
<1>3. ASSUME NEW p \in Pin, SavePin(p) PROVE TasksTyped'
  <2>1. TaskTyped(Handler("hash", key, p, FALSE))
    BY HandlerType, <1>3 DEF AccountTyped, StoreTyped, Name, SavePin
  <2>2. todo' \subseteq todo \cup {Handler("hash", key, p, FALSE)}
    BY <1>3 DEF SavePin, Begins
  <2>3. QED
    BY <2>1, <2>2, TaskAdded DEF AccountTyped
<1>4. ASSUME NEW t \in todo, LoginEnds(t) PROVE TasksTyped'
  <2>1. TaskTyped(Handler("write", t.who, None, TRUE))
    BY HandlerType, <1>4 DEF AccountTyped, StoreTyped, TasksTyped, TaskTyped, Name, LoginEnds
  <2>2. todo' \subseteq todo \cup {Handler("write", t.who, None, TRUE)}
    BY <1>4 DEF LoginEnds, Persists
  <2>3. QED
    BY <2>1, <2>2, TaskAdded DEF AccountTyped
<1>5. ASSUME NEW t \in todo, UnlockVerified(t) PROVE TasksTyped'
  <2>1. TaskTyped(Handler("open", None, t.pin, FALSE))
    <3>1. t.pin \in Pin \cup {None}
      BY <1>5 DEF AccountTyped, TasksTyped, TaskTyped, Waiting
    <3>2. QED
      BY <3>1, HandlerType DEF Name
  <2>2. todo' \subseteq todo \cup {Handler("open", None, t.pin, FALSE)}
    BY <1>5 DEF UnlockVerified
  <2>3. QED
    BY <2>1, <2>2, TaskAdded DEF AccountTyped
<1>6. ASSUME NEW t \in todo, UnlockOpens(t) PROVE TasksTyped'
  <2>1. CASE Opens(t.pin)
    <3>1. TaskTyped(Handler("write", disk.box.who, None, TRUE))
      <4>1. disk.box.who \in Identity
        BY <2>1 DEF Opens, AccountTyped, DiskRow, Name, NoBox, DiskTyped
      <4>2. QED
        BY <4>1, HandlerType DEF Name
    <3>2. todo' \subseteq todo \cup {Handler("write", disk.box.who, None, TRUE)}
      BY <1>6, <2>1 DEF UnlockOpens, Persists
    <3>3. QED
      BY <3>1, <3>2, TaskAdded DEF AccountTyped
  <2>2. CASE ~Opens(t.pin)
    BY <1>6, <2>2 DEF UnlockOpens, AccountTyped, TasksTyped
  <2>3. QED
    BY <2>1, <2>2
<1>7. ASSUME NEW t \in todo, PinHashed(t) PROVE TasksTyped'
  <2>0. t.who \in Identity /\ t.pin \in Pin
    BY <1>7 DEF AccountTyped, TasksTyped, TaskTyped, PinHashed
  <2>1. TaskTyped(Handler("seal", t.who, t.pin, FALSE))
    BY HandlerType, <2>0 DEF Name
  <2>2. todo' \subseteq todo \cup {Handler("seal", t.who, t.pin, FALSE)}
    BY <1>7 DEF PinHashed
  <2>3. QED
    BY <2>1, <2>2, TaskAdded DEF AccountTyped
<1>8. ASSUME NEW t \in todo, BoxSealed(t) PROVE TasksTyped'
  BY <1>8 DEF BoxSealed, Ends, TasksTyped
<1>9. ASSUME NEW t \in todo, WriteEnds(t) PROVE TasksTyped'
  BY <1>9 DEF WriteEnds, Ends, TasksTyped
<1>10. ASSUME NEW t \in todo, ProfileEnds(t) PROVE TasksTyped'
  BY <1>10 DEF ProfileEnds, Ends, TasksTyped
<1>11. ASSUME LockApp PROVE TasksTyped'
  BY <1>11 DEF LockApp, TasksTyped
<1>12. ASSUME RememberDevice PROVE TasksTyped'
  <2>1. TaskTyped(Handler("seal", key, pin, FALSE))
    BY HandlerType, <1>12 DEF AccountTyped, StoreTyped, Name, RememberDevice
  <2>2. todo' \subseteq todo \cup {Handler("seal", key, pin, FALSE)}
    BY <1>12 DEF RememberDevice, Begins
  <2>3. QED
    BY <2>1, <2>2, TaskAdded DEF AccountTyped
<1>13. ASSUME ForgetDevice PROVE TasksTyped'
  BY <1>13 DEF ForgetDevice, TasksTyped
<1>14. ASSUME RemovePin PROVE TasksTyped'
  BY <1>14 DEF RemovePin, TasksTyped
<1>15. ASSUME NEW s \in BOOLEAN, WriteBegins(s) PROVE TasksTyped'
  <2>1. TaskTyped(Handler("write", key, None, s))
    BY HandlerType, <1>15 DEF AccountTyped, StoreTyped, Name, WriteBegins
  <2>2. todo' \subseteq todo \cup {Handler("write", key, None, s)}
    BY <1>15 DEF WriteBegins, Begins
  <2>3. QED
    BY <2>1, <2>2, TaskAdded DEF AccountTyped
<1>16. ASSUME ProfileBegins PROVE TasksTyped'
  <2>1. TaskTyped(Handler("profile", key, None, FALSE))
    BY HandlerType, <1>16 DEF AccountTyped, StoreTyped, Name, ProfileBegins
  <2>2. todo' \subseteq todo \cup {Handler("profile", key, None, FALSE)}
    BY <1>16 DEF ProfileBegins, Begins
  <2>3. QED
    BY <2>1, <2>2, TaskAdded DEF AccountTyped
<1>17. ASSUME SaveProfile PROVE TasksTyped'
  BY <1>17 DEF SaveProfile, TasksTyped
<1>18. ASSUME Reload PROVE TasksTyped'
  BY <1>18 DEF Reload, Loaded, TasksTyped
<1>19. ASSUME Logout PROVE TasksTyped'
  BY <1>19 DEF Logout, TasksTyped
<1>20. ASSUME PanicReset PROVE TasksTyped'
  BY <1>20 DEF PanicReset, TasksTyped
<1>21. ASSUME PanicReopens PROVE TasksTyped'
  BY <1>21 DEF PanicReopens, TasksTyped
<1>22. ASSUME WipeEnds PROVE TasksTyped'
  BY <1>22 DEF WipeEnds, Loaded, TasksTyped
<1>23. ASSUME UNCHANGED accountVars PROVE TasksTyped'
  BY <1>23 DEF TasksTyped, accountVars
<1>24. QED
  BY <1>1, <1>2, <1>3, <1>4, <1>5, <1>6, <1>7, <1>8, <1>9, <1>10, <1>11, <1>12, <1>13, <1>14, <1>15, <1>16,
     <1>17, <1>18, <1>19, <1>20, <1>21, <1>22, <1>23 DEF AccountNext
\* Every step keeps the type of the disk, and its sealed copy one of an identity.
LEMMA DiskTypedStep ==
  ASSUME AccountTyped, KeysTogether, DiskTyped, [AccountNext]_accountVars
  PROVE DiskTyped'
<1>1. ASSUME NEW who \in Identity, LoginBegins(who) PROVE DiskTyped'
  BY <1>1 DEF LoginBegins, DiskTyped
<1>2. ASSUME NEW p \in Pin, UnlockBegins(p) PROVE DiskTyped'
  BY <1>2 DEF UnlockBegins, DiskTyped
<1>3. ASSUME NEW p \in Pin, SavePin(p) PROVE DiskTyped'
  BY <1>3 DEF SavePin, DiskTyped
<1>4. ASSUME NEW t \in todo, LoginEnds(t) PROVE DiskTyped'
  BY <1>4 DEF LoginEnds, DiskTyped, AccountTyped, TasksTyped, TaskTyped, DiskRow, Name
<1>5. ASSUME NEW t \in todo, UnlockVerified(t) PROVE DiskTyped'
  BY <1>5 DEF UnlockVerified, DiskTyped
<1>6. ASSUME NEW t \in todo, UnlockOpens(t) PROVE DiskTyped'
  BY <1>6 DEF UnlockOpens, DiskTyped
<1>7. ASSUME NEW t \in todo, PinHashed(t) PROVE DiskTyped'
  BY <1>7 DEF PinHashed, DiskTyped, AccountTyped, TasksTyped, TaskTyped, DiskRow
<1>8. ASSUME NEW t \in todo, BoxSealed(t) PROVE DiskTyped'
  BY <1>8 DEF BoxSealed, DiskTyped, AccountTyped, TasksTyped, TaskTyped, DiskRow, Name
<1>9. ASSUME NEW t \in todo, WriteEnds(t) PROVE DiskTyped'
  BY <1>9 DEF WriteEnds, DiskTyped
<1>10. ASSUME NEW t \in todo, ProfileEnds(t) PROVE DiskTyped'
  BY <1>10 DEF ProfileEnds, DiskTyped, AccountTyped, StoreTyped, TasksTyped, TaskTyped, DiskRow, Name
<1>11. ASSUME LockApp PROVE DiskTyped'
  BY <1>11 DEF LockApp, DiskTyped
<1>12. ASSUME RememberDevice PROVE DiskTyped'
  BY <1>12 DEF RememberDevice, DiskTyped
<1>13. ASSUME ForgetDevice PROVE DiskTyped'
  BY <1>13 DEF ForgetDevice, DiskTyped, DiskRow, Name, NoBox
<1>14. ASSUME RemovePin PROVE DiskTyped'
  BY <1>14 DEF RemovePin, DiskTyped, DiskRow, Name, NoBox
<1>15. ASSUME NEW s \in BOOLEAN, WriteBegins(s) PROVE DiskTyped'
  BY <1>15 DEF WriteBegins, DiskTyped
<1>16. ASSUME ProfileBegins PROVE DiskTyped'
  BY <1>16 DEF ProfileBegins, DiskTyped
<1>17. ASSUME SaveProfile PROVE DiskTyped'
  BY <1>17 DEF SaveProfile, DiskTyped, AccountTyped, StoreTyped, DiskRow, Name
<1>18. ASSUME Reload PROVE DiskTyped'
  BY <1>18 DEF Reload, Loaded, DiskTyped, DiskRow, Name, NoBox
<1>19. ASSUME Logout PROVE DiskTyped'
  BY <1>19 DEF Logout, NoDisk, DiskTyped, DiskRow, Name, NoBox
<1>20. ASSUME PanicReset PROVE DiskTyped'
  BY <1>20 DEF PanicReset, NoDisk, DiskTyped, DiskRow, Name, NoBox
<1>21. ASSUME PanicReopens PROVE DiskTyped'
  BY <1>21 DEF PanicReopens, DiskTyped
<1>22. ASSUME WipeEnds PROVE DiskTyped'
  BY <1>22 DEF WipeEnds, Loaded, DiskTyped, DiskRow, Name, NoBox
<1>23. ASSUME UNCHANGED accountVars PROVE DiskTyped'
  BY <1>23 DEF DiskTyped, accountVars
<1>24. QED
  BY <1>1, <1>2, <1>3, <1>4, <1>5, <1>6, <1>7, <1>8, <1>9, <1>10, <1>11, <1>12, <1>13, <1>14, <1>15, <1>16,
     <1>17, <1>18, <1>19, <1>20, <1>21, <1>22, <1>23 DEF AccountNext
\* Every step keeps the types of the store.
LEMMA StoreTypedStep == ASSUME AccountTyped, StoreTyped, [AccountNext]_accountVars PROVE StoreTyped'
<1>1. ASSUME NEW who \in Identity, LoginBegins(who) PROVE StoreTyped'
  BY <1>1 DEF LoginBegins, shownVars, StoreTyped, Name, Base
<1>2. ASSUME NEW p \in Pin, UnlockBegins(p) PROVE StoreTyped'
  BY <1>2 DEF UnlockBegins, shownVars, StoreTyped
<1>3. ASSUME NEW p \in Pin, SavePin(p) PROVE StoreTyped'
  BY <1>3 DEF SavePin, shownVars, StoreTyped
<1>4. ASSUME NEW t \in todo, LoginEnds(t) PROVE StoreTyped'
  BY <1>4 DEF LoginEnds, SetKeys, StoreTyped, AccountTyped, TasksTyped, TaskTyped, Name, Base
<1>5. ASSUME NEW t \in todo, UnlockVerified(t) PROVE StoreTyped'
  BY <1>5 DEF UnlockVerified, StoreTyped
<1>6. ASSUME NEW t \in todo, UnlockOpens(t) PROVE StoreTyped'
  <2>1. CASE Opens(t.pin)
    <3>1. disk.box.who \in Identity
      BY <2>1 DEF Opens, AccountTyped, DiskTyped
    <3>2. disk.box.who \in Name /\ [name |-> disk.box.who, open |-> TRUE] \in Base
      BY <3>1 DEF Name, Base
    <3>3. QED
      BY <1>6, <2>1, <3>1, <3>2 DEF UnlockOpens, SetKeys, StoreTyped, AccountTyped
  <2>2. CASE ~Opens(t.pin)
    BY <1>6, <2>2 DEF UnlockOpens, StoreTyped, AccountTyped
  <2>3. QED
    BY <2>1, <2>2
<1>7. ASSUME NEW t \in todo, PinHashed(t) PROVE StoreTyped'
  BY <1>7 DEF PinHashed, StoreTyped, AccountTyped, TasksTyped, TaskTyped
<1>8. ASSUME NEW t \in todo, BoxSealed(t) PROVE StoreTyped'
  BY <1>8 DEF BoxSealed, StoreTyped
<1>9. ASSUME NEW t \in todo, WriteEnds(t) PROVE StoreTyped'
  BY <1>9 DEF WriteEnds, shownVars, StoreTyped
<1>10. ASSUME NEW t \in todo, ProfileEnds(t) PROVE StoreTyped'
  BY <1>10 DEF ProfileEnds, shownVars, StoreTyped
<1>11. ASSUME LockApp PROVE StoreTyped'
  BY <1>11 DEF LockApp, StoreTyped
<1>12. ASSUME RememberDevice PROVE StoreTyped'
  BY <1>12 DEF RememberDevice, shownVars, StoreTyped
<1>13. ASSUME ForgetDevice PROVE StoreTyped'
  BY <1>13 DEF ForgetDevice, StoreTyped
<1>14. ASSUME RemovePin PROVE StoreTyped'
  BY <1>14 DEF RemovePin, StoreTyped
<1>15. ASSUME NEW s \in BOOLEAN, WriteBegins(s) PROVE StoreTyped'
  BY <1>15 DEF WriteBegins, shownVars, StoreTyped
<1>16. ASSUME ProfileBegins PROVE StoreTyped'
  BY <1>16 DEF ProfileBegins, shownVars, StoreTyped
<1>17. ASSUME SaveProfile PROVE StoreTyped'
  BY <1>17 DEF SaveProfile, shownVars, StoreTyped
<1>18. ASSUME Reload PROVE StoreTyped'
  BY <1>18 DEF Reload, Loaded, DefaultBase, StoreTyped, DiskTyped, AccountTyped, Name, Base, DiskRow
<1>19. ASSUME Logout PROVE StoreTyped'
  BY <1>19 DEF Logout, WipeStarts, SignedOut, StoreTyped, Name, Base
<1>20. ASSUME PanicReset PROVE StoreTyped'
  BY <1>20 DEF PanicReset, WipeStarts, StoreTyped, Name, Base
<1>21. ASSUME PanicReopens PROVE StoreTyped'
  BY <1>21 DEF PanicReopens, DefaultBase, shownVars, StoreTyped, Name, Base
<1>22. ASSUME WipeEnds PROVE StoreTyped'
  BY <1>22 DEF WipeEnds, Loaded, DefaultBase, StoreTyped, DiskTyped, AccountTyped, Name, Base, DiskRow
<1>23. ASSUME UNCHANGED accountVars PROVE StoreTyped'
  BY <1>23 DEF StoreTyped, accountVars
<1>24. QED
  BY <1>1, <1>2, <1>3, <1>4, <1>5, <1>6, <1>7, <1>8, <1>9, <1>10, <1>11, <1>12, <1>13, <1>14, <1>15, <1>16,
     <1>17, <1>18, <1>19, <1>20, <1>21, <1>22, <1>23 DEF AccountNext
\* Every step keeps the types of the databases.
LEMMA RowsTypedStep == ASSUME AccountTyped, RowsTyped, [AccountNext]_accountVars PROVE RowsTyped'
<1>1. ASSUME NEW who \in Identity, LoginBegins(who) PROVE RowsTyped'
  BY <1>1 DEF LoginBegins, RowsTyped
<1>2. ASSUME NEW p \in Pin, UnlockBegins(p) PROVE RowsTyped'
  BY <1>2 DEF UnlockBegins, RowsTyped
<1>3. ASSUME NEW p \in Pin, SavePin(p) PROVE RowsTyped'
  BY <1>3 DEF SavePin, RowsTyped
<1>4. ASSUME NEW t \in todo, LoginEnds(t) PROVE RowsTyped'
  BY <1>4 DEF LoginEnds, RowsTyped
<1>5. ASSUME NEW t \in todo, UnlockVerified(t) PROVE RowsTyped'
  BY <1>5 DEF UnlockVerified, RowsTyped
<1>6. ASSUME NEW t \in todo, UnlockOpens(t) PROVE RowsTyped'
  BY <1>6 DEF UnlockOpens, RowsTyped
<1>7. ASSUME NEW t \in todo, PinHashed(t) PROVE RowsTyped'
  BY <1>7 DEF PinHashed, RowsTyped
<1>8. ASSUME NEW t \in todo, BoxSealed(t) PROVE RowsTyped'
  BY <1>8 DEF BoxSealed, RowsTyped
<1>9. ASSUME NEW t \in todo, WriteEnds(t) PROVE RowsTyped'
  BY <1>9 DEF WriteEnds, RowsTyped, AccountTyped, StoreTyped, TasksTyped, TaskTyped, Name, Base, DataRow
<1>10. ASSUME NEW t \in todo, ProfileEnds(t) PROVE RowsTyped'
  BY <1>10 DEF ProfileEnds, RowsTyped
<1>11. ASSUME LockApp PROVE RowsTyped'
  BY <1>11 DEF LockApp, RowsTyped
<1>12. ASSUME RememberDevice PROVE RowsTyped'
  BY <1>12 DEF RememberDevice, RowsTyped
<1>13. ASSUME ForgetDevice PROVE RowsTyped'
  BY <1>13 DEF ForgetDevice, RowsTyped
<1>14. ASSUME RemovePin PROVE RowsTyped'
  BY <1>14 DEF RemovePin, RowsTyped
<1>15. ASSUME NEW s \in BOOLEAN, WriteBegins(s) PROVE RowsTyped'
  BY <1>15 DEF WriteBegins, RowsTyped
<1>16. ASSUME ProfileBegins PROVE RowsTyped'
  BY <1>16 DEF ProfileBegins, RowsTyped
<1>17. ASSUME SaveProfile PROVE RowsTyped'
  BY <1>17 DEF SaveProfile, RowsTyped
<1>18. ASSUME Reload PROVE RowsTyped'
  BY <1>18 DEF Reload, RowsTyped
<1>19. ASSUME Logout PROVE RowsTyped'
  BY <1>19 DEF Logout, RowsTyped
<1>20. ASSUME PanicReset PROVE RowsTyped'
  BY <1>20 DEF PanicReset, RowsTyped
<1>21. ASSUME PanicReopens PROVE RowsTyped'
  BY <1>21 DEF PanicReopens, RowsTyped
<1>22. ASSUME WipeEnds PROVE RowsTyped'
  BY <1>22 DEF WipeEnds, RowsTyped
<1>23. ASSUME UNCHANGED accountVars PROVE RowsTyped'
  BY <1>23 DEF RowsTyped, accountVars
<1>24. QED
  BY <1>1, <1>2, <1>3, <1>4, <1>5, <1>6, <1>7, <1>8, <1>9, <1>10, <1>11, <1>12, <1>13, <1>14, <1>15, <1>16,
     <1>17, <1>18, <1>19, <1>20, <1>21, <1>22, <1>23 DEF AccountNext
\* Every step keeps the keys, the open database and the vault together.
LEMMA KeysTogetherStep == ASSUME AccountTyped, KeysTogether, [AccountNext]_accountVars PROVE KeysTogether'
<1>1. ASSUME NEW who \in Identity, LoginBegins(who) PROVE KeysTogether'
  BY <1>1 DEF LoginBegins, shownVars, KeysTogether
<1>2. ASSUME NEW p \in Pin, UnlockBegins(p) PROVE KeysTogether'
  BY <1>2 DEF UnlockBegins, shownVars, KeysTogether, Unwiped
<1>3. ASSUME NEW p \in Pin, SavePin(p) PROVE KeysTogether'
  BY <1>3 DEF SavePin, shownVars, KeysTogether, Unwiped
<1>4. ASSUME NEW t \in todo, LoginEnds(t) PROVE KeysTogether'
  BY <1>4 DEF LoginEnds, SetKeys, KeysTogether, Unwiped
<1>5. ASSUME NEW t \in todo, UnlockVerified(t) PROVE KeysTogether'
  BY <1>5 DEF UnlockVerified, KeysTogether, Unwiped
<1>6. ASSUME NEW t \in todo, UnlockOpens(t) PROVE KeysTogether'
  BY <1>6 DEF UnlockOpens, SetKeys, KeysTogether, Unwiped
<1>7. ASSUME NEW t \in todo, PinHashed(t) PROVE KeysTogether'
  BY <1>7 DEF PinHashed, KeysTogether, Unwiped
<1>8. ASSUME NEW t \in todo, BoxSealed(t) PROVE KeysTogether'
  BY <1>8 DEF BoxSealed, KeysTogether, Unwiped
<1>9. ASSUME NEW t \in todo, WriteEnds(t) PROVE KeysTogether'
  BY <1>9 DEF WriteEnds, shownVars, KeysTogether, Unwiped
<1>10. ASSUME NEW t \in todo, ProfileEnds(t) PROVE KeysTogether'
  BY <1>10 DEF ProfileEnds, shownVars, KeysTogether, Unwiped
<1>11. ASSUME LockApp PROVE KeysTogether'
  BY <1>11 DEF LockApp, KeysTogether, Unwiped
<1>12. ASSUME RememberDevice PROVE KeysTogether'
  BY <1>12 DEF RememberDevice, shownVars, KeysTogether, Unwiped
<1>13. ASSUME ForgetDevice PROVE KeysTogether'
  BY <1>13 DEF ForgetDevice, KeysTogether, Unwiped
<1>14. ASSUME RemovePin PROVE KeysTogether'
  BY <1>14 DEF RemovePin, KeysTogether, Unwiped
<1>15. ASSUME NEW s \in BOOLEAN, WriteBegins(s) PROVE KeysTogether'
  BY <1>15 DEF WriteBegins, shownVars, KeysTogether, Unwiped
<1>16. ASSUME ProfileBegins PROVE KeysTogether'
  BY <1>16 DEF ProfileBegins, shownVars, KeysTogether, Unwiped
<1>17. ASSUME SaveProfile PROVE KeysTogether'
  BY <1>17 DEF SaveProfile, shownVars, KeysTogether, Unwiped
<1>18. ASSUME Reload PROVE KeysTogether'
  BY <1>18 DEF Reload, Loaded, KeysTogether
<1>19. ASSUME Logout PROVE KeysTogether'
  BY <1>19 DEF Logout, SignedOut, KeysTogether
<1>20. ASSUME PanicReset PROVE KeysTogether'
  BY <1>20 DEF PanicReset, KeysTogether
<1>21. ASSUME PanicReopens PROVE KeysTogether'
  BY <1>21 DEF PanicReopens, shownVars, KeysTogether
<1>22. ASSUME WipeEnds PROVE KeysTogether'
  BY <1>22 DEF WipeEnds, Loaded, KeysTogether
<1>23. ASSUME UNCHANGED accountVars PROVE KeysTogether'
  BY <1>23 DEF KeysTogether, accountVars, Unwiped
<1>24. QED
  BY <1>1, <1>2, <1>3, <1>4, <1>5, <1>6, <1>7, <1>8, <1>9, <1>10, <1>11, <1>12, <1>13, <1>14, <1>15, <1>16,
     <1>17, <1>18, <1>19, <1>20, <1>21, <1>22, <1>23 DEF AccountNext
\* Every step keeps the handlers that write those of the identity signed in.
LEMMA TasksAreOwnStep ==
  ASSUME AccountTyped, KeysTogether, TasksAreOwn, EntersOnce, [AccountNext]_accountVars
  PROVE TasksAreOwn'
<1>1. ASSUME NEW who \in Identity, LoginBegins(who) PROVE TasksAreOwn'
  BY <1>1 DEF LoginBegins, Begins, shownVars, TasksAreOwn, Writers, PinTasks, Handler, EntersOnce, Unwiped
<1>2. ASSUME NEW p \in Pin, UnlockBegins(p) PROVE TasksAreOwn'
  BY <1>2 DEF UnlockBegins, Begins, shownVars, TasksAreOwn, Writers, PinTasks, Handler, EntersOnce, Unwiped
<1>3. ASSUME NEW p \in Pin, SavePin(p) PROVE TasksAreOwn'
  BY <1>3 DEF SavePin, Begins, shownVars, TasksAreOwn, Writers, PinTasks, Handler, EntersOnce, Unwiped
<1>4. ASSUME NEW t \in todo, LoginEnds(t) PROVE TasksAreOwn'
  <2>1. key = None /\ Unwiped
    BY <1>4 DEF LoginEnds, EntersOnce, Unwiped
  <2>2. Writers \cup PinTasks = {}
    BY <2>1, AccountAssumption DEF TasksAreOwn, AccountTyped, TasksTyped, TaskTyped, Writers, PinTasks
  <2>3. todo' \subseteq todo \cup {Handler("write", t.who, None, TRUE)} /\ key' = t.who /\ wiping' = wiping
    BY <1>4 DEF LoginEnds, SetKeys, Persists
  <2>4. QED
    BY <2>1, <2>2, <2>3 DEF TasksAreOwn, Writers, PinTasks, Handler, Unwiped
<1>5. ASSUME NEW t \in todo, UnlockVerified(t) PROVE TasksAreOwn'
  BY <1>5 DEF UnlockVerified, TasksAreOwn, Writers, PinTasks, Handler, EntersOnce, Unwiped
<1>6. ASSUME NEW t \in todo, UnlockOpens(t) PROVE TasksAreOwn'
  <2>1. CASE Opens(t.pin)
    <3>1. todo' \subseteq todo \cup {Handler("write", disk.box.who, None, TRUE)} /\ key' = disk.box.who
          /\ wiping' = wiping /\ Unwiped
      BY <1>6, <2>1 DEF UnlockOpens, SetKeys, Persists
    <3>2. key = None => Writers \cup PinTasks = {}
      BY <3>1, AccountAssumption DEF TasksAreOwn, AccountTyped, TasksTyped, TaskTyped, Writers, PinTasks
    <3>3. key # None => key' = key
      BY <1>6, <2>1, <3>1 DEF EntersOnce, Unlocks, Opens, UnlockOpens
    <3>4. QED
      BY <3>1, <3>2, <3>3 DEF TasksAreOwn, Writers, PinTasks, Handler, Unwiped
  <2>2. CASE ~Opens(t.pin)
    BY <1>6, <2>2 DEF UnlockOpens, TasksAreOwn, Writers, PinTasks, Unwiped
  <2>3. QED
    BY <2>1, <2>2
<1>7. ASSUME NEW t \in todo, PinHashed(t) PROVE TasksAreOwn'
  BY <1>7 DEF PinHashed, TasksAreOwn, Writers, PinTasks, Handler, EntersOnce, Unwiped
<1>8. ASSUME NEW t \in todo, BoxSealed(t) PROVE TasksAreOwn'
  BY <1>8 DEF BoxSealed, Ends, TasksAreOwn, Writers, PinTasks, EntersOnce, Unwiped
<1>9. ASSUME NEW t \in todo, WriteEnds(t) PROVE TasksAreOwn'
  BY <1>9 DEF WriteEnds, Ends, shownVars, TasksAreOwn, Writers, PinTasks, EntersOnce, Unwiped
<1>10. ASSUME NEW t \in todo, ProfileEnds(t) PROVE TasksAreOwn'
  BY <1>10 DEF ProfileEnds, Ends, shownVars, TasksAreOwn, Writers, PinTasks, EntersOnce, Unwiped
<1>11. ASSUME LockApp PROVE TasksAreOwn'
  BY <1>11 DEF LockApp, TasksAreOwn, Writers, PinTasks, EntersOnce, Unwiped
<1>12. ASSUME RememberDevice PROVE TasksAreOwn'
  BY <1>12 DEF RememberDevice, Begins, shownVars, TasksAreOwn, Writers, PinTasks, Handler, EntersOnce, Unwiped
<1>13. ASSUME ForgetDevice PROVE TasksAreOwn'
  BY <1>13 DEF ForgetDevice, TasksAreOwn, Writers, PinTasks, EntersOnce, Unwiped
<1>14. ASSUME RemovePin PROVE TasksAreOwn'
  BY <1>14 DEF RemovePin, TasksAreOwn, Writers, PinTasks, EntersOnce, Unwiped
<1>15. ASSUME NEW s \in BOOLEAN, WriteBegins(s) PROVE TasksAreOwn'
  BY <1>15 DEF WriteBegins, Begins, shownVars, TasksAreOwn, Writers, PinTasks, Handler, EntersOnce, Unwiped
<1>16. ASSUME ProfileBegins PROVE TasksAreOwn'
  BY <1>16 DEF ProfileBegins, Begins, shownVars, TasksAreOwn, Writers, PinTasks, Handler, EntersOnce, Unwiped
<1>17. ASSUME SaveProfile PROVE TasksAreOwn'
  BY <1>17 DEF SaveProfile, shownVars, TasksAreOwn, Writers, PinTasks, EntersOnce, Unwiped
<1>18. ASSUME Reload PROVE TasksAreOwn'
  BY <1>18 DEF Reload, Loaded, TasksAreOwn, Writers, PinTasks
<1>19. ASSUME Logout PROVE TasksAreOwn'
  BY <1>19 DEF Logout, WipeStarts, TasksAreOwn, Writers, PinTasks, EntersOnce, Unwiped
<1>20. ASSUME PanicReset PROVE TasksAreOwn'
  BY <1>20 DEF PanicReset, WipeStarts, TasksAreOwn, Writers, PinTasks, EntersOnce, Unwiped
<1>21. ASSUME PanicReopens PROVE TasksAreOwn'
  BY <1>21 DEF PanicReopens, TasksAreOwn, Writers, PinTasks, EntersOnce, Unwiped
<1>22. ASSUME WipeEnds PROVE TasksAreOwn'
  BY <1>22 DEF WipeEnds, Loaded, TasksAreOwn, Writers, PinTasks
<1>23. ASSUME UNCHANGED accountVars PROVE TasksAreOwn'
  BY <1>23 DEF TasksAreOwn, accountVars, Writers, PinTasks, EntersOnce, Unwiped
<1>24. QED
  BY <1>1, <1>2, <1>3, <1>4, <1>5, <1>6, <1>7, <1>8, <1>9, <1>10, <1>11, <1>12, <1>13, <1>14, <1>15, <1>16,
     <1>17, <1>18, <1>19, <1>20, <1>21, <1>22, <1>23 DEF AccountNext
\* Every step keeps the ways in apart: one login, or a lock screen.
LEMMA EntersOnceStep ==
  ASSUME AccountTyped, KeysTogether, TasksAreOwn, EntersOnce, [AccountNext]_accountVars
  PROVE EntersOnce'
<1>1. ASSUME NEW who \in Identity, LoginBegins(who) PROVE EntersOnce'
  <2> DEFINE h == Handler("login", who, None, FALSE)
  <2>1. Unwiped /\ key = None /\ ~locked /\ \A u \in todo : u.do # "login"
    BY <1>1 DEF LoginBegins
  <2>2. todo' = todo \cup {h} /\ UNCHANGED <<key, locked, remembered, wiping, disk>>
    BY <1>1 DEF LoginBegins, Begins, shownVars
  <2>3. \A u \in todo : u.do \notin {"verify", "open"}
    BY <2>1 DEF EntersOnce
  <2>4. h.do = "login"
    BY DEF Handler
  <2> HIDE DEF h
  <2>5. \A u \in todo' : u.do \notin {"verify", "open"}
    BY <2>2, <2>3, <2>4
  <2>6. \A u \in todo' : u.do = "login" => u = h
    BY <2>1, <2>2
  <2>7. QED
    BY <2>1, <2>2, <2>5, <2>6 DEF EntersOnce, Unlocks, Unwiped
<1>2. ASSUME NEW p \in Pin, UnlockBegins(p) PROVE EntersOnce'
  BY <1>2 DEF UnlockBegins, Begins, shownVars, EntersOnce, Unlocks, Handler
<1>3. ASSUME NEW p \in Pin, SavePin(p) PROVE EntersOnce'
  BY <1>3 DEF SavePin, Begins, shownVars, EntersOnce, Unlocks, Handler
<1>4. ASSUME NEW t \in todo, LoginEnds(t) PROVE EntersOnce'
  BY <1>4 DEF LoginEnds, Persists, EntersOnce, Unlocks, Handler
<1>5. ASSUME NEW t \in todo, UnlockVerified(t) PROVE EntersOnce'
  <2>1. UNCHANGED <<key, remembered, wiping, disk>>
    BY <1>5 DEF UnlockVerified
  <2>2. CASE t.secret /\ t.who = None /\ remembered
    <3>1. todo' = (todo \ {t}) \cup {Handler("open", None, t.pin, FALSE)} /\ locked' = locked
      BY <1>5, <2>2 DEF UnlockVerified
    <3>2. t.do = "verify" /\ Unlocks(t)
      BY <1>5, <2>2 DEF UnlockVerified, Unlocks
    <3>3. QED
      BY <2>1, <3>1, <3>2 DEF EntersOnce, Handler, Unlocks, Unwiped
  <2>3. CASE ~(t.secret /\ t.who = None /\ remembered)
    <3>1. todo' = todo \ {t} /\ locked' = (locked /\ ~t.secret) /\ t.do = "verify"
      BY <1>5, <2>3 DEF UnlockVerified
    <3>2. CASE ~Unwiped
      BY <2>1, <3>2 DEF EntersOnce, Unwiped
    <3>3. CASE Unwiped /\ key = None
      <4>1. t.who = None /\ locked /\ remembered
        BY <3>1, <3>3 DEF EntersOnce
      <4>2. ~t.secret /\ locked'
        BY <2>3, <3>1, <4>1
      <4>3. QED
        BY <2>1, <3>1, <3>3, <4>1, <4>2 DEF EntersOnce, Unlocks, Unwiped
    <3>4. CASE Unwiped /\ key # None
      BY <2>1, <3>1, <3>4 DEF EntersOnce, Unlocks, Unwiped
    <3>5. QED
      BY <3>2, <3>3, <3>4
  <2>4. QED
    BY <2>2, <2>3
<1>6. ASSUME NEW t \in todo, UnlockOpens(t) PROVE EntersOnce'
  <2>1. Unwiped /\ t.do = "open" /\ UNCHANGED <<wiping, disk>>
    BY <1>6 DEF UnlockOpens
  <2>2. CASE Opens(t.pin)
    <3>1. /\ todo' = (todo \ {t}) \cup {Handler("write", disk.box.who, None, TRUE)}
          /\ key' = disk.box.who /\ disk.box # NoBox
      BY <1>6, <2>2 DEF UnlockOpens, SetKeys, Persists, Opens
    <3>2. key' # None
      BY <3>1, AccountAssumption DEF AccountTyped, DiskTyped
    <3>3. \A u \in todo : u.do # "login"
      <4>1. CASE key = None
        BY <2>1, <4>1 DEF EntersOnce
      <4>2. CASE key # None
        BY <2>1, <4>2 DEF EntersOnce
      <4>3. QED
        BY <4>1, <4>2
    <3>4. key # None => key' = key
      BY <2>1, <3>1 DEF EntersOnce, Unlocks
    <3>5. \A u \in todo : u.do = "verify" => u.who \in {None, key'}
      BY <2>1, <3>4 DEF EntersOnce
    <3>6. QED
      BY <2>1, <3>1, <3>2, <3>3, <3>5 DEF EntersOnce, Handler, Unlocks, Unwiped
  <2>3. CASE ~Opens(t.pin)
    <3>1. todo' = todo \ {t} /\ UNCHANGED <<key, locked, remembered>>
      BY <1>6, <2>3 DEF UnlockOpens
    <3>2. QED
      BY <2>1, <3>1 DEF EntersOnce, Unlocks, Unwiped
  <2>4. QED
    BY <2>2, <2>3
<1>7. ASSUME NEW t \in todo, PinHashed(t) PROVE EntersOnce'
  BY <1>7 DEF PinHashed, EntersOnce, Unlocks, Handler, Unwiped
<1>8. ASSUME NEW t \in todo, BoxSealed(t) PROVE EntersOnce'
  BY <1>8 DEF BoxSealed, Ends, EntersOnce, PinTasks, TasksAreOwn, Unwiped
<1>9. ASSUME NEW t \in todo, WriteEnds(t) PROVE EntersOnce'
  BY <1>9 DEF WriteEnds, Ends, shownVars, EntersOnce, Unwiped
<1>10. ASSUME NEW t \in todo, ProfileEnds(t) PROVE EntersOnce'
  BY <1>10 DEF ProfileEnds, Ends, shownVars, EntersOnce, Unwiped
<1>11. ASSUME LockApp PROVE EntersOnce'
  BY <1>11 DEF LockApp, EntersOnce
<1>12. ASSUME RememberDevice PROVE EntersOnce'
  BY <1>12 DEF RememberDevice, Begins, shownVars, EntersOnce, Unlocks, Handler
<1>13. ASSUME ForgetDevice PROVE EntersOnce'
  BY <1>13 DEF ForgetDevice, EntersOnce
<1>14. ASSUME RemovePin PROVE EntersOnce'
  BY <1>14 DEF RemovePin, EntersOnce
<1>15. ASSUME NEW s \in BOOLEAN, WriteBegins(s) PROVE EntersOnce'
  BY <1>15 DEF WriteBegins, Begins, shownVars, EntersOnce, Unlocks, Handler
<1>16. ASSUME ProfileBegins PROVE EntersOnce'
  BY <1>16 DEF ProfileBegins, Begins, shownVars, EntersOnce, Unlocks, Handler
<1>17. ASSUME SaveProfile PROVE EntersOnce'
  BY <1>17 DEF SaveProfile, shownVars, EntersOnce
<1>18. ASSUME Reload PROVE EntersOnce'
  BY <1>18 DEF Reload, Loaded, EntersOnce
<1>19. ASSUME Logout PROVE EntersOnce'
  BY <1>19 DEF Logout, WipeStarts, EntersOnce, Unwiped
<1>20. ASSUME PanicReset PROVE EntersOnce'
  BY <1>20 DEF PanicReset, WipeStarts, EntersOnce, Unwiped
<1>21. ASSUME PanicReopens PROVE EntersOnce'
  BY <1>21 DEF PanicReopens, EntersOnce, Unwiped
<1>22. ASSUME WipeEnds PROVE EntersOnce'
  BY <1>22 DEF WipeEnds, Loaded, EntersOnce
<1>23. ASSUME UNCHANGED accountVars PROVE EntersOnce'
  BY <1>23 DEF EntersOnce, accountVars, Unwiped
<1>24. QED
  BY <1>1, <1>2, <1>3, <1>4, <1>5, <1>6, <1>7, <1>8, <1>9, <1>10, <1>11, <1>12, <1>13, <1>14, <1>15, <1>16,
     <1>17, <1>18, <1>19, <1>20, <1>21, <1>22, <1>23 DEF AccountNext
\* Every step keeps the PIN of the store, of the disk and of the box in step.
LEMMA PinInStepStep ==
  ASSUME AccountTyped, KeysTogether, TasksAreOwn, PinInStep, [AccountNext]_accountVars
  PROVE PinInStep'
<1>1. ASSUME NEW who \in Identity, LoginBegins(who) PROVE PinInStep'
  BY <1>1 DEF LoginBegins, Begins, shownVars, PinInStep, PinTasks, Handler
<1>2. ASSUME NEW p \in Pin, UnlockBegins(p) PROVE PinInStep'
  BY <1>2 DEF UnlockBegins, Begins, shownVars, PinInStep, PinTasks, Handler
<1>3. ASSUME NEW p \in Pin, SavePin(p) PROVE PinInStep'
  <2> DEFINE h == Handler("hash", key, p, FALSE)
  <2>1. Unwiped /\ todo' = todo \cup {h} /\ UNCHANGED <<pin, disk, wiping>> /\ rash' = (rash \/ PinTasks # {})
    BY <1>3 DEF SavePin, Begins, shownVars
  <2>2. h.do = "hash" /\ h.pin = p
    BY DEF Handler
  <2> HIDE DEF h
  <2>3. ASSUME ~rash' PROVE ~rash /\ PinTasks = {} /\ PinTasks' = {h}
    BY <2>1, <2>2, <2>3 DEF PinTasks
  <2>4. QED
    BY <2>1, <2>2, <2>3 DEF PinInStep, Unwiped
<1>4. ASSUME NEW t \in todo, LoginEnds(t) PROVE PinInStep'
  BY <1>4 DEF LoginEnds, Persists, PinInStep, PinTasks, Handler
<1>5. ASSUME NEW t \in todo, UnlockVerified(t) PROVE PinInStep'
  BY <1>5 DEF UnlockVerified, PinInStep, PinTasks, Handler, Unwiped
<1>6. ASSUME NEW t \in todo, UnlockOpens(t) PROVE PinInStep'
  BY <1>6 DEF UnlockOpens, Persists, PinInStep, PinTasks, Handler
<1>7. ASSUME NEW t \in todo, PinHashed(t) PROVE PinInStep'
  <2> DEFINE h == Handler("seal", t.who, t.pin, FALSE)
  <2>1. /\ t.do = "hash" /\ pin' = t.pin /\ disk' = [disk EXCEPT !.pin = t.pin]
        /\ todo' = (todo \ {t}) \cup {h} /\ UNCHANGED <<wiping, rash>>
    BY <1>7 DEF PinHashed
  <2>2. h.do = "seal" /\ h.pin = t.pin
    BY DEF Handler
  <2> HIDE DEF h
  <2>3. disk'.pin = t.pin
    BY <2>1 DEF AccountTyped, DiskTyped, DiskRow
  <2>4. ASSUME ~rash' PROVE PinTasks' = {h}
    <3>1. t \in PinTasks
      BY <2>1 DEF PinTasks
    <3>2. PinTasks \subseteq {t}
      BY <2>1, <2>4, <3>1 DEF PinInStep
    <3>3. QED
      BY <2>1, <2>2, <3>2 DEF PinTasks
  <2>5. QED
    BY <2>1, <2>2, <2>3, <2>4 DEF PinInStep, Unwiped
<1>8. ASSUME NEW t \in todo, BoxSealed(t) PROVE PinInStep'
  BY <1>8 DEF BoxSealed, Ends, PinInStep, PinTasks, Unwiped
<1>9. ASSUME NEW t \in todo, WriteEnds(t) PROVE PinInStep'
  BY <1>9 DEF WriteEnds, Ends, shownVars, PinInStep, PinTasks, Unwiped
<1>10. ASSUME NEW t \in todo, ProfileEnds(t) PROVE PinInStep'
  BY <1>10 DEF ProfileEnds, Ends, shownVars, PinInStep, PinTasks, Unwiped
<1>11. ASSUME LockApp PROVE PinInStep'
  BY <1>11 DEF LockApp, PinInStep, PinTasks
<1>12. ASSUME RememberDevice PROVE PinInStep'
  <2> DEFINE h == Handler("seal", key, pin, FALSE)
  <2>1. Unwiped /\ todo' = todo \cup {h} /\ UNCHANGED <<pin, disk, wiping>> /\ rash' = (rash \/ PinTasks # {})
    BY <1>12 DEF RememberDevice, Begins, shownVars
  <2>2. h.do = "seal" /\ h.pin = pin
    BY DEF Handler
  <2> HIDE DEF h
  <2>3. ASSUME ~rash' PROVE ~rash /\ PinTasks = {} /\ PinTasks' = {h}
    BY <2>1, <2>2, <2>3 DEF PinTasks
  <2>4. QED
    BY <2>1, <2>2, <2>3 DEF PinInStep, Unwiped
<1>13. ASSUME ForgetDevice PROVE PinInStep'
  BY <1>13 DEF ForgetDevice, PinInStep, PinTasks, DiskTyped, DiskRow, AccountTyped
<1>14. ASSUME RemovePin PROVE PinInStep'
  BY <1>14 DEF RemovePin, PinInStep, PinTasks, DiskTyped, DiskRow, AccountTyped
<1>15. ASSUME NEW s \in BOOLEAN, WriteBegins(s) PROVE PinInStep'
  BY <1>15 DEF WriteBegins, Begins, shownVars, PinInStep, PinTasks, Handler
<1>16. ASSUME ProfileBegins PROVE PinInStep'
  BY <1>16 DEF ProfileBegins, Begins, shownVars, PinInStep, PinTasks, Handler
<1>17. ASSUME SaveProfile PROVE PinInStep'
  BY <1>17 DEF SaveProfile, shownVars, PinInStep, PinTasks
<1>18. ASSUME Reload PROVE PinInStep'
  BY <1>18 DEF Reload, Loaded, PinInStep, PinTasks, DiskTyped, DiskRow, AccountTyped
<1>19. ASSUME Logout PROVE PinInStep'
  BY <1>19 DEF Logout, WipeStarts, SignedOut, NoDisk, PinInStep, PinTasks
<1>20. ASSUME PanicReset PROVE PinInStep'
  BY <1>20 DEF PanicReset, WipeStarts, NoDisk, PinInStep, PinTasks, Unwiped
<1>21. ASSUME PanicReopens PROVE PinInStep'
  BY <1>21 DEF PanicReopens, PinInStep, PinTasks, Unwiped
<1>22. ASSUME WipeEnds PROVE PinInStep'
  BY <1>22 DEF WipeEnds, Loaded, PinInStep, PinTasks, TasksAreOwn
<1>23. ASSUME UNCHANGED accountVars PROVE PinInStep'
  BY <1>23 DEF PinInStep, accountVars, PinTasks, Unwiped
<1>24. QED
  BY <1>1, <1>2, <1>3, <1>4, <1>5, <1>6, <1>7, <1>8, <1>9, <1>10, <1>11, <1>12, <1>13, <1>14, <1>15, <1>16,
     <1>17, <1>18, <1>19, <1>20, <1>21, <1>22, <1>23 DEF AccountNext
\* Every step keeps the rows of an identity in the database of its own.
LEMMA RowsAreOwnStep ==
  ASSUME AccountTyped, KeysTogether, TasksAreOwn, RowsAreOwn, [AccountNext]_accountVars
  PROVE RowsAreOwn'
<1>1. ASSUME NEW who \in Identity, LoginBegins(who) PROVE RowsAreOwn'
  BY <1>1 DEF LoginBegins, RowsAreOwn
<1>2. ASSUME NEW p \in Pin, UnlockBegins(p) PROVE RowsAreOwn'
  BY <1>2 DEF UnlockBegins, RowsAreOwn
<1>3. ASSUME NEW p \in Pin, SavePin(p) PROVE RowsAreOwn'
  BY <1>3 DEF SavePin, RowsAreOwn
<1>4. ASSUME NEW t \in todo, LoginEnds(t) PROVE RowsAreOwn'
  BY <1>4 DEF LoginEnds, RowsAreOwn
<1>5. ASSUME NEW t \in todo, UnlockVerified(t) PROVE RowsAreOwn'
  BY <1>5 DEF UnlockVerified, RowsAreOwn
<1>6. ASSUME NEW t \in todo, UnlockOpens(t) PROVE RowsAreOwn'
  BY <1>6 DEF UnlockOpens, RowsAreOwn
<1>7. ASSUME NEW t \in todo, PinHashed(t) PROVE RowsAreOwn'
  BY <1>7 DEF PinHashed, RowsAreOwn
<1>8. ASSUME NEW t \in todo, BoxSealed(t) PROVE RowsAreOwn'
  BY <1>8 DEF BoxSealed, RowsAreOwn
<1>9. ASSUME NEW t \in todo, WriteEnds(t) PROVE RowsAreOwn'
  BY <1>9, AccountAssumption DEF WriteEnds, RowsAreOwn, Writers, TasksAreOwn, KeysTogether, AccountTyped,
     TasksTyped, TaskTyped
<1>10. ASSUME NEW t \in todo, ProfileEnds(t) PROVE RowsAreOwn'
  BY <1>10 DEF ProfileEnds, RowsAreOwn
<1>11. ASSUME LockApp PROVE RowsAreOwn'
  BY <1>11 DEF LockApp, RowsAreOwn
<1>12. ASSUME RememberDevice PROVE RowsAreOwn'
  BY <1>12 DEF RememberDevice, RowsAreOwn
<1>13. ASSUME ForgetDevice PROVE RowsAreOwn'
  BY <1>13 DEF ForgetDevice, RowsAreOwn
<1>14. ASSUME RemovePin PROVE RowsAreOwn'
  BY <1>14 DEF RemovePin, RowsAreOwn
<1>15. ASSUME NEW s \in BOOLEAN, WriteBegins(s) PROVE RowsAreOwn'
  BY <1>15 DEF WriteBegins, RowsAreOwn
<1>16. ASSUME ProfileBegins PROVE RowsAreOwn'
  BY <1>16 DEF ProfileBegins, RowsAreOwn
<1>17. ASSUME SaveProfile PROVE RowsAreOwn'
  BY <1>17 DEF SaveProfile, RowsAreOwn
<1>18. ASSUME Reload PROVE RowsAreOwn'
  BY <1>18 DEF Reload, RowsAreOwn
<1>19. ASSUME Logout PROVE RowsAreOwn'
  BY <1>19 DEF Logout, WipeStarts, RowsAreOwn, RowsTyped, AccountTyped
<1>20. ASSUME PanicReset PROVE RowsAreOwn'
  BY <1>20 DEF PanicReset, RowsAreOwn
<1>21. ASSUME PanicReopens PROVE RowsAreOwn'
  BY <1>21 DEF PanicReopens, RowsAreOwn
<1>22. ASSUME WipeEnds PROVE RowsAreOwn'
  BY <1>22 DEF WipeEnds, RowsAreOwn
<1>23. ASSUME UNCHANGED accountVars PROVE RowsAreOwn'
  BY <1>23 DEF RowsAreOwn, accountVars
<1>24. QED
  BY <1>1, <1>2, <1>3, <1>4, <1>5, <1>6, <1>7, <1>8, <1>9, <1>10, <1>11, <1>12, <1>13, <1>14, <1>15, <1>16,
     <1>17, <1>18, <1>19, <1>20, <1>21, <1>22, <1>23 DEF AccountNext
\* Every step keeps what was wiped away.
LEMMA WipedIsGoneStep ==
  ASSUME AccountTyped, KeysTogether, TasksAreOwn, RowsAreOwn, WipedIsGone, [AccountNext]_accountVars
  PROVE WipedIsGone'
<1>1. ASSUME NEW who \in Identity, LoginBegins(who) PROVE WipedIsGone'
  BY <1>1 DEF LoginBegins, shownVars, WipedIsGone
<1>2. ASSUME NEW p \in Pin, UnlockBegins(p) PROVE WipedIsGone'
  BY <1>2 DEF UnlockBegins, shownVars, WipedIsGone
<1>3. ASSUME NEW p \in Pin, SavePin(p) PROVE WipedIsGone'
  BY <1>3 DEF SavePin, shownVars, WipedIsGone
<1>4. ASSUME NEW t \in todo, LoginEnds(t) PROVE WipedIsGone'
  BY <1>4 DEF LoginEnds, SetKeys, WipedIsGone
<1>5. ASSUME NEW t \in todo, UnlockVerified(t) PROVE WipedIsGone'
  BY <1>5 DEF UnlockVerified, WipedIsGone
<1>6. ASSUME NEW t \in todo, UnlockOpens(t) PROVE WipedIsGone'
  <2>1. CASE Opens(t.pin)
    <3>1. key' = disk.box.who /\ wiped' = wiped \ {disk.box.who} /\ UNCHANGED <<rows, disk, rash, late>>
      BY <1>6, <2>1 DEF UnlockOpens, SetKeys
    <3>2. QED
      BY <3>1 DEF WipedIsGone
  <2>2. CASE ~Opens(t.pin)
    BY <1>6, <2>2 DEF UnlockOpens, WipedIsGone
  <2>3. QED
    BY <2>1, <2>2
<1>7. ASSUME NEW t \in todo, PinHashed(t) PROVE WipedIsGone'
  BY <1>7 DEF PinHashed, WipedIsGone
<1>8. ASSUME NEW t \in todo, BoxSealed(t) PROVE WipedIsGone'
  BY <1>8 DEF BoxSealed, WipedIsGone, PinTasks, TasksAreOwn
<1>9. ASSUME NEW t \in todo, WriteEnds(t) PROVE WipedIsGone'
  BY <1>9, AccountAssumption DEF WriteEnds, shownVars, WipedIsGone, Writers, TasksAreOwn, KeysTogether,
     AccountTyped, TasksTyped, TaskTyped
<1>10. ASSUME NEW t \in todo, ProfileEnds(t) PROVE WipedIsGone'
  BY <1>10 DEF ProfileEnds, shownVars, WipedIsGone, Writers, TasksAreOwn
<1>11. ASSUME LockApp PROVE WipedIsGone'
  BY <1>11 DEF LockApp, WipedIsGone
<1>12. ASSUME RememberDevice PROVE WipedIsGone'
  BY <1>12 DEF RememberDevice, shownVars, WipedIsGone
<1>13. ASSUME ForgetDevice PROVE WipedIsGone'
  BY <1>13, AccountAssumption DEF ForgetDevice, WipedIsGone, AccountTyped, StoreTyped, NoBox
<1>14. ASSUME RemovePin PROVE WipedIsGone'
  BY <1>14, AccountAssumption DEF RemovePin, WipedIsGone, AccountTyped, StoreTyped, NoBox
<1>15. ASSUME NEW s \in BOOLEAN, WriteBegins(s) PROVE WipedIsGone'
  BY <1>15 DEF WriteBegins, shownVars, WipedIsGone
<1>16. ASSUME ProfileBegins PROVE WipedIsGone'
  BY <1>16 DEF ProfileBegins, shownVars, WipedIsGone
<1>17. ASSUME SaveProfile PROVE WipedIsGone'
  BY <1>17 DEF SaveProfile, shownVars, WipedIsGone
<1>18. ASSUME Reload PROVE WipedIsGone'
  BY <1>18, AccountAssumption DEF Reload, Loaded, WipedIsGone, AccountTyped, StoreTyped, NoBox
<1>19. ASSUME Logout PROVE WipedIsGone'
  BY <1>19, AccountAssumption DEF Logout, WipeStarts, SignedOut, NoDisk, WipedIsGone, RowsAreOwn, RowsTyped,
     AccountTyped, StoreTyped, Name, NoBox
<1>20. ASSUME PanicReset PROVE WipedIsGone'
  BY <1>20, AccountAssumption DEF PanicReset, WipeStarts, NoDisk, WipedIsGone, AccountTyped, StoreTyped, Name,
     NoBox
<1>21. ASSUME PanicReopens PROVE WipedIsGone'
  BY <1>21 DEF PanicReopens, shownVars, WipedIsGone
<1>22. ASSUME WipeEnds PROVE WipedIsGone'
  BY <1>22 DEF WipeEnds, Loaded, WipedIsGone, KeysTogether, NoBox
<1>23. ASSUME UNCHANGED accountVars PROVE WipedIsGone'
  BY <1>23 DEF WipedIsGone, accountVars
<1>24. QED
  BY <1>1, <1>2, <1>3, <1>4, <1>5, <1>6, <1>7, <1>8, <1>9, <1>10, <1>11, <1>12, <1>13, <1>14, <1>15, <1>16,
     <1>17, <1>18, <1>19, <1>20, <1>21, <1>22, <1>23 DEF AccountNext

\* Nobody has signed in yet.
LEMMA AccountStart == AccountInit => AccountInv
<1> SUFFICES ASSUME AccountInit PROVE AccountInv
  OBVIOUS
<1>1. None \in Name /\ NoBox \in [who : Name, pin : Pin \cup {None}]
  BY DEF Name, NoBox
<1>2. DiskTyped
  BY <1>1 DEF AccountInit, DiskTyped, DiskRow, NoDisk
<1>3. DefaultBase \in Base
  BY <1>1 DEF DefaultBase, Base
<1>4. StoreTyped
  BY <1>1, <1>3 DEF AccountInit, StoreTyped
<1>5. RowsTyped /\ TasksTyped
  BY DEF AccountInit, RowsTyped, TasksTyped
<1>6. KeysTogether /\ TasksAreOwn /\ EntersOnce /\ RowsAreOwn /\ WipedIsGone
  BY AccountAssumption DEF AccountInit, KeysTogether, TasksAreOwn, EntersOnce, RowsAreOwn, WipedIsGone,
     Writers, PinTasks, Unwiped
<1>7. PinInStep
  BY DEF AccountInit, PinInStep, PinTasks, NoDisk
<1>8. QED
  BY <1>2, <1>4, <1>5, <1>6, <1>7 DEF AccountInv, AccountTyped

\* Every step keeps the invariant.
LEMMA AccountStep == AccountInv /\ [AccountNext]_accountVars => AccountInv'
<1> SUFFICES ASSUME AccountInv, [AccountNext]_accountVars PROVE AccountInv'
  OBVIOUS
<1>1. AccountTyped /\ KeysTogether /\ TasksAreOwn /\ EntersOnce /\ PinInStep /\ RowsAreOwn /\ WipedIsGone
  BY DEF AccountInv
<1>2. StoreTyped /\ DiskTyped /\ RowsTyped /\ TasksTyped
  BY <1>1 DEF AccountTyped
<1>3. StoreTyped' /\ DiskTyped' /\ RowsTyped' /\ TasksTyped'
  BY <1>1, <1>2, StoreTypedStep, DiskTypedStep, RowsTypedStep, TasksTypedStep
<1>4. KeysTogether' /\ TasksAreOwn' /\ EntersOnce' /\ PinInStep' /\ RowsAreOwn' /\ WipedIsGone'
  BY <1>1, KeysTogetherStep, TasksAreOwnStep, EntersOnceStep, PinInStepStep, RowsAreOwnStep, WipedIsGoneStep
<1>5. QED
  BY <1>3, <1>4 DEF AccountInv, AccountTyped

\* What the invariant says of the properties the runs check.
LEMMA AccountGives == AccountInv => AccountTypeOK /\ PinOpensBox /\ DataStaysOwn
<1> SUFFICES ASSUME AccountInv PROVE AccountTypeOK /\ PinOpensBox /\ DataStaysOwn
  OBVIOUS
<1>1. AccountTyped /\ KeysTogether /\ PinInStep /\ RowsAreOwn /\ WipedIsGone
  BY DEF AccountInv
<1>2. /\ disk.pin \in Pin \cup {None} /\ disk.box \in [who : Name, pin : Pin \cup {None}]
      /\ disk.names \subseteq Identity /\ disk.nick \in Name
  BY <1>1 DEF AccountTyped, DiskTyped, DiskRow
<1>3. AccountTypeOK
  BY <1>1, <1>2 DEF AccountTypeOK, AccountTyped, StoreTyped, RowsTyped, TasksTyped, TaskTyped, KeysTogether,
     Base, DataRow
<1>4. PinOpensBox
  BY <1>1 DEF PinOpensBox, PinInStep
<1>5. DataStaysOwn
  BY <1>1 DEF DataStaysOwn, WipeIsFinal, WipedIsGone
<1>6. QED
  BY <1>3, <1>4, <1>5

\* The invariant holds in every state.
LEMMA AccountAlways == AccountSpec => []AccountInv
BY AccountStart, AccountStep, PTL DEF AccountSpec

\* The store, the disk, the databases and the waiting handlers are of their
\* types, and the keys, the open database and the vault belong together.
THEOREM AccountTypeCorrect == AccountSpec => []AccountTypeOK
BY AccountAlways, AccountGives, PTL

\* The PIN of the lock screen also opens the sealed copy of the identity, unless
\* another change of the PIN, a wipe or a reload overlapped a change of it.
THEOREM PinAlwaysOpensBox == AccountSpec => []PinOpensBox
BY AccountAlways, AccountGives, PTL

\* Rows lie in the database of the identity that wrote them, and nothing of a
\* wiped identity is left on the device, unless a handler was at work when the
\* wipe began.
THEOREM DataStaysWithOwner == AccountSpec => []DataStaysOwn
BY AccountAlways, AccountGives, PTL

-----------------------------------------------------------------------------
(* The connection: the inductive invariant.                                *)

Timer == [no : Nat \ {0}, kind : {"check", "close"}]
Socket == [url : Url, at : Stages]
Lists == {Own, Own \o Relay}
Manager ==
  [ws : Nat, socks : Seq(Socket), armed : SUBSET Timer, handle : Nat, manual : BOOLEAN,
   tries : Nat, authed : BOOLEAN, status : {"offline", "connecting", "reconnecting", "connected"},
   compat : SUBSET Url, checks : SUBSET Url, list : Lists, seeking : BOOLEAN,
   begun : BOOLEAN]

\* The type of a manager: ws names one of its sockets, and no two timers that
\* may still fire have the same number.
ManagerOK(s) ==
  /\ s \in Manager
  /\ s.ws <= Len(s.socks)
  /\ IsFiniteSet(s.armed)
  /\ \A a, b \in s.armed : a.no = b.no => a = b

\* SocketIsHeld of a manager, for as long as nothing has crossed.
Held(s) ==
  /\ \A i \in DOMAIN s.socks : s.socks[i].at \in Live => s.ws = i
  /\ s.authed => s.ws # 0 /\ s.socks[s.ws].at \in {"ready", "closing"}
  /\ s.status = "connected" => s.authed

\* The manager has something that will have it connect again.
Trying(s) ==
  \/ s.checks # {} \/ s.armed # {}
  \/ \E i \in DOMAIN s.socks : s.socks[i].at # "gone"

\* The two differ in timers and the number of attempts at most.
SameLink(s, t) ==
  /\ t.ws = s.ws /\ t.socks = s.socks /\ t.authed = s.authed /\ t.status = s.status
  /\ t.manual = s.manual /\ t.begun = s.begun /\ t.checks = s.checks

\* The server connect turns to is one the page knows.
LEMMA TargetIsKnown == ASSUME NEW s, ManagerOK(s) PROVE Target(s) \in Url
<1>0. Own \o Relay \in Seq(Url) /\ Len(Own \o Relay) > 0 /\ Len(Own) > 0
  BY ConnectionAssumption
<1>1. s.list \in Seq(Url) /\ Len(s.list) > 0
  BY <1>0, ConnectionAssumption DEF ManagerOK, Manager, Lists
<1>2. s.tries % Len(s.list) \in 0 .. (Len(s.list) - 1)
  BY <1>1 DEF ManagerOK, Manager
<1>3. QED
  BY <1>1, <1>2 DEF Target

\* A socket enters another stage.
LEMMA AtOK ==
  ASSUME NEW s, ManagerOK(s), NEW i \in DOMAIN s.socks, NEW stage \in Stages
  PROVE  /\ ManagerOK(At(s, i, stage))
         /\ DOMAIN At(s, i, stage).socks = DOMAIN s.socks
         /\ At(s, i, stage).socks[i].at = stage
         /\ \A k \in DOMAIN s.socks \ {i} : At(s, i, stage).socks[k] = s.socks[k]
         /\ At(s, i, stage) = [s EXCEPT !.socks = At(s, i, stage).socks]
<1> DEFINE new == [s.socks EXCEPT ![i] = [s.socks[i] EXCEPT !.at = stage]]
<1>1. s.socks \in Seq(Socket)
  BY DEF ManagerOK, Manager
<1>2. s.socks[i] \in Socket
  BY <1>1
<1>3. [s.socks[i] EXCEPT !.at = stage] \in Socket /\ [s.socks[i] EXCEPT !.at = stage].at = stage
  BY <1>2 DEF Socket
<1>4. new \in Seq(Socket) /\ Len(new) = Len(s.socks) /\ DOMAIN new = DOMAIN s.socks
      /\ new[i].at = stage /\ \A k \in DOMAIN s.socks \ {i} : new[k] = s.socks[k]
  BY <1>1, <1>3
<1>5. At(s, i, stage) = [s EXCEPT !.socks = new]
  BY DEF At
<1> HIDE DEF new
<1>6. QED
  BY <1>4, <1>5 DEF ManagerOK, Manager

\* There is always a number for a timer that no timer has.
LEMMA FreeNumber ==
  ASSUME NEW S, IsFiniteSet(S), NEW h
  PROVE  \E n \in 1 .. (Cardinality(S) + 2) : n # h /\ \A a \in S : a.no # n
<1> DEFINE T == {a.no : a \in S}
<1>1. IsFiniteSet(T) /\ Cardinality(T) <= Cardinality(S)
  <2> DEFINE f == [a \in S |-> a.no]
  <2>1. f \in Surjection(S, T)
    BY DEF Surjection
  <2>2. QED
    BY ONLY <2>1, FS_Surjection, IsFiniteSet(S)
<1>2. Cardinality(S) \in Nat /\ Cardinality(T) \in Nat
  BY <1>1, FS_CardinalityType
<1>3. \E n \in 1 .. (Cardinality(S) + 2) : n \notin T \cup {h}
  <2> HIDE DEF T
  <2>1. SUFFICES ASSUME \A n \in 1 .. (Cardinality(S) + 2) : n \in T \cup {h} PROVE FALSE
    OBVIOUS
  <2>2. IsFiniteSet(T \cup {h}) /\ Cardinality(T \cup {h}) <= Cardinality(T) + 1
    <3>1. IsFiniteSet(T \cup {h})
          /\ Cardinality(T \cup {h}) = IF h \in T THEN Cardinality(T) ELSE Cardinality(T) + 1
      BY <1>1, FS_AddElement
    <3>2. QED
      BY <1>2, <3>1
  <2>3. PICK n \in Nat : n = Cardinality(S) + 2
    BY <1>2
  <2>4. IsFiniteSet(1 .. n) /\ Cardinality(1 .. n) = n
    BY <2>3, FS_Interval
  <2>5. 1 .. n \subseteq T \cup {h}
    BY <2>1, <2>3
  <2>6. n <= Cardinality(T \cup {h})
    BY <2>2, <2>4, <2>5, FS_Subset
  <2>7. QED
    BY <1>1, <1>2, <2>2, <2>3, <2>6, FS_CardinalityType
<1>4. QED
  BY <1>3, Zenon

\* setTimeout adds a timer.
LEMMA ArmOK ==
  ASSUME NEW s, ManagerOK(s), NEW kind \in {"check", "close"}
  PROVE  /\ ManagerOK(Arm(s, kind))
         /\ Arm(s, kind).armed # {}
         /\ SameLink(s, Arm(s, kind))
<1> DEFINE free == CHOOSE n \in 1 .. (Cardinality(s.armed) + 2) : n # s.handle /\ \A a \in s.armed : a.no # n
<1>1. free \in 1 .. (Cardinality(s.armed) + 2) /\ \A a \in s.armed : a.no # free
  <2>1. IsFiniteSet(s.armed)
    BY DEF ManagerOK
  <2>2. \E n \in 1 .. (Cardinality(s.armed) + 2) : n # s.handle /\ \A a \in s.armed : a.no # n
    BY <2>1, FreeNumber
  <2>3. QED
    BY <2>2, Zenon
<1>2. free \in Nat \ {0}
  BY <1>1, FS_CardinalityType DEF ManagerOK
<1>3. Arm(s, kind) = [s EXCEPT !.armed = @ \cup {[no |-> free, kind |-> kind]}, !.handle = free, !.tries = @ + 1]
  BY DEF Arm
<1> HIDE DEF free
<1>4. [no |-> free, kind |-> kind] \in Timer
  BY <1>2 DEF Timer
<1>5. IsFiniteSet(s.armed \cup {[no |-> free, kind |-> kind]})
  BY FS_AddElement DEF ManagerOK
<1> DEFINE all == s.armed \cup {[no |-> free, kind |-> kind]}
<1>6. all \in SUBSET Timer /\ IsFiniteSet(all) /\ all # {} /\ \A a, b \in all : a.no = b.no => a = b
  BY <1>1, <1>4, <1>5 DEF ManagerOK, Manager
<1>7. Arm(s, kind) = [s EXCEPT !.armed = all, !.handle = free, !.tries = @ + 1]
  BY <1>3
<1> HIDE DEF all
<1>8. SameLink(s, Arm(s, kind)) /\ Arm(s, kind).armed = all
  BY <1>7 DEF ManagerOK, Manager, SameLink
<1>9. Arm(s, kind) \in Manager
  <2>1. s \in Manager
    BY DEF ManagerOK
  <2>2. s.tries + 1 \in Nat
    BY <2>1 DEF Manager
  <2>3. [s EXCEPT !.armed = all, !.handle = free, !.tries = s.tries + 1] \in Manager
    BY <1>2, <1>6, <2>1, <2>2 DEF Manager
  <2>4. QED
    BY <1>7, <2>3
<1>10. QED
  BY <1>6, <1>8, <1>9 DEF ManagerOK, SameLink

\* clearTimeout takes at most one away.
LEMMA DisarmOK ==
  ASSUME NEW s, ManagerOK(s)
  PROVE  ManagerOK(Disarm(s)) /\ SameLink(s, Disarm(s))
<1> DEFINE left == {a \in s.armed : a.no # s.handle}
<1>1. left \subseteq s.armed /\ left \in SUBSET Timer /\ IsFiniteSet(left)
  BY FS_Subset DEF ManagerOK, Manager
<1>2. Disarm(s) = [s EXCEPT !.armed = left, !.handle = 0]
  BY DEF Disarm
<1> HIDE DEF left
<1>3. SameLink(s, Disarm(s)) /\ Disarm(s).armed = left
  BY <1>2 DEF ManagerOK, Manager, SameLink
<1>4. Disarm(s) \in Manager
  <2>1. s \in Manager
    BY DEF ManagerOK
  <2>2. [s EXCEPT !.armed = left, !.handle = 0] \in Manager
    BY <1>1, <2>1 DEF Manager
  <2>3. QED
    BY <1>2, <2>2
<1>5. QED
  BY <1>1, <1>3, <1>4 DEF ManagerOK, SameLink

\* close() leaves a socket closing that is not alive.
LEMMA CloseWsOK ==
  ASSUME NEW s, ManagerOK(s)
  PROVE  /\ ManagerOK(CloseWs(s))
         /\ DOMAIN CloseWs(s).socks = DOMAIN s.socks
         /\ \A k \in DOMAIN s.socks : k # s.ws => CloseWs(s).socks[k] = s.socks[k]
         /\ s.ws # 0 => s.ws \in DOMAIN s.socks
         /\ s.ws # 0 => CloseWs(s).socks[s.ws].at \notin Live
         /\ s.ws # 0 /\ s.socks[s.ws].at \notin Live => CloseWs(s).socks[s.ws] = s.socks[s.ws]
         /\ s.ws # 0 /\ s.socks[s.ws].at \in Live => CloseWs(s).socks[s.ws].at = "closing"
         /\ CloseWs(s) = [s EXCEPT !.socks = CloseWs(s).socks]
<1>1. s.ws # 0 => s.ws \in DOMAIN s.socks
  BY DEF ManagerOK, Manager
<1>2. s = [s EXCEPT !.socks = s.socks]
  BY DEF ManagerOK, Manager
<1>3. CASE Stage(s) \in Live
  <2>1. s.ws # 0 /\ CloseWs(s) = At(s, s.ws, "closing") /\ "closing" \in Stages /\ "closing" \notin Live
        /\ s.socks[s.ws].at \in Live
    BY <1>3 DEF CloseWs, Stage, Live, Stages
  <2>2. QED
    BY <1>1, <2>1, AtOK
<1>4. CASE Stage(s) \notin Live
  <2>1. CloseWs(s) = s
    BY <1>4 DEF CloseWs
  <2>2. s.ws # 0 => s.socks[s.ws].at \notin Live
    BY <1>4 DEF Stage
  <2>3. QED
    BY <1>1, <1>2, <2>1, <2>2
<1>5. QED
  BY <1>3, <1>4

\* connect() leaves a manager that has a socket or a check to wait for, and
\* begins a socket only where none is alive.
LEMMA ConnectOK ==
  ASSUME NEW s, ManagerOK(s)
  PROVE  ManagerOK(Connect(s)) /\ Trying(Connect(s)) /\ (Held(s) => Held(Connect(s)))
<1> DEFINE word == IF s.tries >= Fast THEN "offline" ELSE IF s.tries > 0 THEN "reconnecting" ELSE "connecting"
           t == [s EXCEPT !.manual = FALSE, !.seeking = TRUE, !.begun = TRUE, !.status = word]
           new == [url |-> Target(s), at |-> "opening"]
<1>1. word \in {"offline", "connecting", "reconnecting"}
  OBVIOUS
<1>2. Target(s) \in Url
  BY TargetIsKnown
<1>3. new \in Socket
  BY <1>2 DEF Socket, Stages, Live
<1>4. s.socks \in Seq(Socket) /\ s.ws \in Nat /\ s.ws <= Len(s.socks)
  BY DEF ManagerOK, Manager
<1>5. CASE InUse(s)
  <2>1. Connect(s) = s
    BY <1>5 DEF Connect
  <2>2. s.ws \in DOMAIN s.socks /\ s.socks[s.ws].at # "gone"
    BY <1>4, <1>5 DEF InUse, Stage, Live
  <2>3. QED
    BY <2>1, <2>2 DEF Trying
<1>a. t = [s EXCEPT !.manual = FALSE, !.seeking = TRUE, !.begun = TRUE, !.status = word]
  OBVIOUS
<1>b. ~InUse(s) => Connect(s) = IF Target(s) \notin s.compat
                               THEN [t EXCEPT !.checks = @ \cup {Target(s)}]
                               ELSE [t EXCEPT !.socks = Append(@, new), !.ws = Len(s.socks) + 1, !.authed = FALSE]
  BY Zenon DEF Connect
<1> HIDE DEF word, t
<1>6. CASE ~InUse(s) /\ Target(s) \notin s.compat
  <2>1. Connect(s) = [s EXCEPT !.manual = FALSE, !.seeking = TRUE, !.begun = TRUE, !.status = word,
                               !.checks = @ \cup {Target(s)}]
    BY <1>6, <1>a, <1>b DEF ManagerOK, Manager
  <2> DEFINE all == s.checks \cup {Target(s)}
  <2>a. s \in Manager /\ all \in SUBSET Url
    BY <1>2 DEF ManagerOK, Manager
  <2>b. Connect(s) = [s EXCEPT !.manual = FALSE, !.seeking = TRUE, !.begun = TRUE, !.status = word,
                               !.checks = all]
    BY <2>1
  <2>c. all # {}
    OBVIOUS
  <2> HIDE DEF all
  <2>d. [s EXCEPT !.manual = FALSE, !.seeking = TRUE, !.begun = TRUE, !.status = word,
                  !.checks = all] \in Manager
    BY <1>1, <2>a DEF Manager
  <2>e. Connect(s) \in Manager
    BY <2>b, <2>d
  <2>f. Connect(s).checks = all /\ Connect(s).armed = s.armed /\ Connect(s).socks = s.socks
        /\ Connect(s).ws = s.ws
    BY <2>a, <2>b DEF Manager
  <2>2. ManagerOK(Connect(s)) /\ Connect(s).checks # {}
    BY <2>c, <2>e, <2>f DEF ManagerOK
  <2>3. Connect(s).socks = s.socks /\ Connect(s).ws = s.ws /\ Connect(s).authed = s.authed
        /\ Connect(s).status = word
    BY <2>1 DEF ManagerOK, Manager
  <2>4. Held(s) => Held(Connect(s))
    BY <1>1, <2>3 DEF Held
  <2>5. QED
    BY <2>2, <2>4 DEF Trying
<1>7. CASE ~InUse(s) /\ Target(s) \in s.compat
  <2>1. Connect(s) = [s EXCEPT !.manual = FALSE, !.seeking = TRUE, !.begun = TRUE, !.status = word,
                               !.socks = Append(@, new), !.ws = Len(s.socks) + 1, !.authed = FALSE]
    BY <1>7, <1>a, <1>b DEF ManagerOK, Manager
  <2> HIDE DEF new
  <2>2. /\ Append(s.socks, new) \in Seq(Socket) /\ Len(Append(s.socks, new)) = Len(s.socks) + 1
        /\ Append(s.socks, new)[Len(s.socks) + 1] = new
        /\ \A k \in DOMAIN s.socks : Append(s.socks, new)[k] = s.socks[k]
        /\ DOMAIN Append(s.socks, new) = DOMAIN s.socks \cup {Len(s.socks) + 1}
    BY <1>3, <1>4
  <2>3. /\ Connect(s).socks = Append(s.socks, new) /\ Connect(s).ws = Len(s.socks) + 1
        /\ Connect(s).authed = FALSE /\ Connect(s).status = word
    BY <2>1 DEF ManagerOK, Manager
  <2> DEFINE socks == Append(s.socks, new)
             no == Len(s.socks) + 1
  <2>a. s \in Manager /\ socks \in Seq(Socket) /\ no \in Nat
    BY <1>4, <2>2 DEF ManagerOK
  <2>b. Connect(s) = [s EXCEPT !.manual = FALSE, !.seeking = TRUE, !.begun = TRUE, !.status = word,
                               !.socks = socks, !.ws = no, !.authed = FALSE]
    BY <2>1
  <2>c. no <= Len(socks)
    BY <1>4, <2>2
  <2> HIDE DEF socks, no
  <2>d. [s EXCEPT !.manual = FALSE, !.seeking = TRUE, !.begun = TRUE, !.status = word,
                  !.socks = socks, !.ws = no, !.authed = FALSE] \in Manager
    BY <1>1, <2>a DEF Manager
  <2>e. Connect(s) \in Manager
    BY <2>b, <2>d
  <2>f. Connect(s).socks = socks /\ Connect(s).ws = no /\ Connect(s).armed = s.armed
    BY <2>a, <2>b DEF Manager
  <2>4. ManagerOK(Connect(s))
    BY <2>c, <2>e, <2>f DEF ManagerOK
  <2>5. Trying(Connect(s))
    BY <2>2, <2>3 DEF Trying, new
  <2>6. ASSUME Held(s) PROVE Held(Connect(s))
    <3>1. \A i \in DOMAIN s.socks : s.socks[i].at \notin Live
      BY <1>4, <1>7, <2>6 DEF Held, InUse, Stage
    <3>2. QED
      BY <1>1, <2>2, <2>3, <3>1 DEF Held
  <2>7. QED
    BY <2>4, <2>5, <2>6
<1>8. QED
  BY <1>5, <1>6, <1>7

\* The close event of socket i leaves no socket alive that was not already
\* out of the manager's hands, and sets a timer unless the user disconnected.
LEMMA ClosedOK ==
  ASSUME NEW s, ManagerOK(s), NEW i \in DOMAIN s.socks
  PROVE  /\ ManagerOK(Closed(s, i))
         /\ Closed(s, i).manual = s.manual
         /\ ~s.manual => Trying(Closed(s, i))
         /\ Held(s) /\ s.ws \in {0, i} => Held(Closed(s, i))
<1> DEFINE g == At(s, i, "gone")
           t == [g EXCEPT !.ws = 0, !.authed = FALSE]
           word == IF s.tries >= Fast THEN "offline" ELSE "reconnecting"
<1>1. /\ ManagerOK(g) /\ DOMAIN g.socks = DOMAIN s.socks
      /\ g.socks[i].at = "gone" /\ \A k \in DOMAIN s.socks \ {i} : g.socks[k] = s.socks[k]
      /\ g = [s EXCEPT !.socks = g.socks]
  BY AtOK DEF Stages
<1> HIDE DEF g
<1>2. g \in Manager
  BY <1>1 DEF ManagerOK
<1>3. g.manual = s.manual
  BY <1>1 DEF ManagerOK, Manager
<1>4. Held(s) /\ s.ws \in {0, i} => \A k \in DOMAIN g.socks : g.socks[k].at \notin Live
  <2>1. 0 \notin DOMAIN s.socks
    BY DEF ManagerOK, Manager
  <2>2. QED
    BY <1>1, <2>1 DEF Held, Live
<1>5. ASSUME NEW w \in {"offline", "reconnecting"}
      PROVE  /\ ManagerOK([t EXCEPT !.status = w])
             /\ [t EXCEPT !.status = w].manual = s.manual
             /\ Held(s) /\ s.ws \in {0, i} => Held([t EXCEPT !.status = w])
  <2> DEFINE u == [g EXCEPT !.ws = 0, !.authed = FALSE, !.status = w]
  <2>1. [t EXCEPT !.status = w] = u
    BY <1>2 DEF Manager
  <2>2. u \in Manager
    BY <1>2 DEF Manager
  <2>3. u.ws = 0 /\ u.authed = FALSE /\ u.status = w /\ u.socks = g.socks /\ u.armed = g.armed
        /\ u.manual = g.manual
    BY <1>2 DEF Manager
  <2> HIDE DEF u
  <2>4. ManagerOK(u)
    BY <1>1, <2>2, <2>3 DEF ManagerOK, Manager
  <2>5. Held(s) /\ s.ws \in {0, i} => Held(u)
    BY <1>4, <2>3 DEF Held
  <2>6. QED
    BY <1>3, <2>1, <2>3, <2>4, <2>5
<1>6. CASE s.manual
  <2>1. Closed(s, i) = [t EXCEPT !.status = "offline"]
    BY <1>6 DEF Closed, g
  <2>2. QED
    BY <1>5, <1>6, <2>1
<1>7. CASE ~s.manual
  <2> DEFINE u == [t EXCEPT !.status = word]
  <2>1. Closed(s, i) = Arm(u, "close")
    BY <1>7 DEF Closed, g
  <2>2. ManagerOK(u) /\ u.manual = s.manual /\ (Held(s) /\ s.ws \in {0, i} => Held(u))
    BY <1>5
  <2> HIDE DEF u
  <2>3. ManagerOK(Arm(u, "close")) /\ Arm(u, "close").armed # {} /\ SameLink(u, Arm(u, "close"))
    BY <2>2, ArmOK
  <2>4. Held(u) => Held(Arm(u, "close"))
    BY <2>3 DEF SameLink, Held
  <2>5. QED
    BY <2>1, <2>2, <2>3, <2>4 DEF Trying, SameLink
<1>8. QED
  BY <1>6, <1>7

\* The inductive invariant: the page's manager is a manager, and what the two
\* properties say of it holds.
LinkInv ==
  /\ ManagerOK(mgr) /\ up \subseteq Url /\ crossed \in BOOLEAN /\ stranded \in BOOLEAN
  /\ crossed \/ Held(mgr)
  /\ mgr.begun /\ ~mgr.manual /\ ~stranded => Trying(mgr)

\* The page is loaded.
LEMMA LinkInit == ConnectionInit => LinkInv
<1> SUFFICES ASSUME ConnectionInit PROVE LinkInv
  OBVIOUS
<1>1. mgr \in Manager /\ mgr.ws = 0 /\ mgr.socks = <<>> /\ mgr.armed = {} /\ mgr.begun = FALSE
      /\ mgr.authed = FALSE /\ mgr.status = "offline"
  BY DEF ConnectionInit, Manager, Lists
<1>2. IsFiniteSet({})
  BY FS_EmptySet
<1>3. ManagerOK(mgr) /\ Held(mgr)
  BY <1>1, <1>2 DEF ManagerOK, Held
<1>4. QED
  BY <1>1, <1>3 DEF ConnectionInit, LinkInv

\* The first connect, and the discovery that goes with it.
LEMMA LinkMount == ASSUME LinkInv, Mount PROVE LinkInv'
<1>1. ManagerOK(Connect(mgr)) /\ Trying(Connect(mgr)) /\ (Held(mgr) => Held(Connect(mgr)))
  BY ConnectOK DEF LinkInv
<1>2. mgr' = Connect(mgr) /\ Same
  BY DEF Mount, Sets
<1>3. QED
  BY <1>1, <1>2 DEF LinkInv, Same

\* connect, when the page wakes up or the network is back.
LEMMA LinkWake == ASSUME LinkInv, Wake PROVE LinkInv'
<1>1. ManagerOK(Connect(mgr)) /\ Trying(Connect(mgr)) /\ (Held(mgr) => Held(Connect(mgr)))
  BY ConnectOK DEF LinkInv
<1>2. mgr' = Connect(mgr) /\ UNCHANGED <<up, crossed, stranded>>
  BY DEF Wake, Sets
<1>3. QED
  BY <1>1, <1>2 DEF LinkInv

\* disconnect() closes the socket it lets go of.
LEMMA LinkDisconnect == ASSUME LinkInv, Disconnect PROVE LinkInv'
<1> DEFINE s == Disarm(mgr)
           c == CloseWs(s)
<1>1. ManagerOK(s) /\ SameLink(mgr, s)
  BY DisarmOK DEF LinkInv
<1>2. /\ ManagerOK(c) /\ DOMAIN c.socks = DOMAIN s.socks
      /\ \A k \in DOMAIN s.socks : k # s.ws => c.socks[k] = s.socks[k]
      /\ s.ws # 0 => c.socks[s.ws].at \notin Live
  BY <1>1, CloseWsOK
<1>3. mgr' = [c EXCEPT !.ws = 0, !.authed = FALSE, !.manual = TRUE, !.status = "offline"] /\ Same
  BY DEF Disconnect, Sets
<1> HIDE DEF s, c
<1>4. c \in Manager
  BY <1>2 DEF ManagerOK
<1>5. [c EXCEPT !.ws = 0, !.authed = FALSE, !.manual = TRUE, !.status = "offline"] \in Manager
  BY <1>4 DEF Manager
<1>6. mgr' \in Manager
  BY <1>3, <1>5
<1>7. mgr'.ws = 0 /\ mgr'.authed = FALSE /\ mgr'.manual = TRUE /\ mgr'.status = "offline"
      /\ mgr'.socks = c.socks /\ mgr'.armed = c.armed
  BY <1>3, <1>4 DEF Manager
<1>8. ManagerOK(mgr')
  BY <1>2, <1>6, <1>7 DEF ManagerOK, Manager
<1>9. Held(mgr) => Held(mgr')
  BY <1>1, <1>2, <1>7 DEF Held, SameLink
<1>10. QED
  BY <1>3, <1>7, <1>8, <1>9 DEF LinkInv, Same

\* DiscoveryEnds changes the list of servers only.
LEMMA LinkDiscovery == ASSUME LinkInv, DiscoveryEnds PROVE LinkInv'
<1>1. PICK list \in Lists : mgr' = [mgr EXCEPT !.seeking = FALSE, !.list = list]
  BY DEF DiscoveryEnds, Sets, Lists
<1>2. mgr \in Manager
  BY DEF LinkInv, ManagerOK
<1>3. [mgr EXCEPT !.seeking = FALSE, !.list = list] \in Manager
  BY <1>2 DEF Manager
<1>4. mgr' \in Manager
  BY <1>1, <1>3
<1>5. SameLink(mgr, mgr') /\ mgr'.armed = mgr.armed
  BY <1>1, <1>2 DEF Manager, SameLink
<1>6. ManagerOK(mgr') /\ (Held(mgr) => Held(mgr')) /\ (Trying(mgr) => Trying(mgr'))
  BY <1>4, <1>5 DEF LinkInv, ManagerOK, Held, Trying, SameLink
<1>7. QED
  BY <1>5, <1>6 DEF LinkInv, Same, DiscoveryEnds, SameLink

\* A timer that has fired connects again.
LEMMA LinkFire == ASSUME LinkInv, NEW a \in mgr.armed, Fire(a) PROVE LinkInv'
<1> DEFINE left == mgr.armed \ {a}
           s == [mgr EXCEPT !.armed = left]
           t == IF a.kind = "check" THEN [s EXCEPT !.handle = 0] ELSE s
<1>1. mgr' = Connect(t) /\ Same
  BY DEF Fire, Sets
<1>2. mgr \in Manager /\ left \in SUBSET Timer
  BY DEF LinkInv, ManagerOK, Manager
<1>3. IsFiniteSet(left)
  BY FS_Subset DEF LinkInv, ManagerOK
<1>4. \A b, c \in left : b.no = c.no => b = c
  BY DEF LinkInv, ManagerOK
<1> HIDE DEF left
<1>5. s \in Manager
  BY <1>2 DEF Manager
<1>6. t \in Manager
  BY <1>5 DEF Manager
<1>7. SameLink(mgr, t) /\ t.armed = left
  BY <1>2 DEF Manager, SameLink
<1> HIDE DEF t
<1>8. ManagerOK(t) /\ (Held(mgr) => Held(t))
  BY <1>3, <1>4, <1>6, <1>7 DEF LinkInv, ManagerOK, Held, SameLink
<1>9. ManagerOK(Connect(t)) /\ Trying(Connect(t)) /\ (Held(t) => Held(Connect(t)))
  BY <1>8, ConnectOK
<1>10. QED
  BY <1>1, <1>8, <1>9 DEF LinkInv, Same

\* A check that ends: the socket, the timer, or a timer that is already set.
LEMMA LinkCheckEnds == ASSUME LinkInv, NEW u \in mgr.checks, CheckEnds(u) PROVE LinkInv'
<1> DEFINE left == mgr.checks \ {u}
           s == [mgr EXCEPT !.checks = left]
           t == [s EXCEPT !.status = "offline"]
           known == mgr.compat \cup {u}
           good == [s EXCEPT !.compat = known]
<1>1. mgr \in Manager /\ left \in SUBSET Url /\ known \in SUBSET Url
  BY DEF LinkInv, ManagerOK, Manager
<1> HIDE DEF left, known
<1>2. s \in Manager
  BY <1>1 DEF Manager
<1>3. t \in Manager /\ good \in Manager
  BY <1>1, <1>2 DEF Manager
<1>4. /\ t.socks = mgr.socks /\ t.ws = mgr.ws /\ t.authed = mgr.authed /\ t.armed = mgr.armed
      /\ t.status = "offline" /\ t.manual = mgr.manual /\ t.begun = mgr.begun
      /\ good.socks = mgr.socks /\ good.ws = mgr.ws /\ good.authed = mgr.authed
      /\ good.armed = mgr.armed /\ good.status = mgr.status /\ good.manual = mgr.manual
      /\ good.begun = mgr.begun
  BY <1>1 DEF Manager
<1>5. CASE u \in up
  <2>1. mgr' = (IF mgr.manual THEN good ELSE Connect(good)) /\ Same
    BY <1>5 DEF CheckEnds, Sets, s, good, left, known
  <2> HIDE DEF good
  <2>2. ManagerOK(good) /\ (Held(mgr) => Held(good))
    BY <1>3, <1>4 DEF LinkInv, ManagerOK, Held
  <2>3. ManagerOK(Connect(good)) /\ Trying(Connect(good)) /\ (Held(good) => Held(Connect(good)))
    BY <2>2, ConnectOK
  <2>4. CASE mgr.manual
    BY <1>4, <2>1, <2>2, <2>4 DEF LinkInv, Same
  <2>5. CASE ~mgr.manual
    BY <2>1, <2>2, <2>3, <2>5 DEF LinkInv, Same
  <2>6. QED
    BY <2>4, <2>5
<1>6. CASE u \notin up
  <2>1. /\ mgr' = (IF mgr.manual \/ mgr.handle # 0 THEN t ELSE Arm(t, "check"))
        /\ stranded' = (stranded \/ (~mgr.manual /\ mgr.handle # 0 /\ \A a \in mgr.armed : a.no # mgr.handle))
        /\ UNCHANGED <<up, crossed>>
    BY <1>6 DEF CheckEnds, Sets, RetryCheck, s, t, left
  <2> HIDE DEF t
  <2>2. ManagerOK(t) /\ (Held(mgr) => Held(t))
    BY <1>3, <1>4 DEF LinkInv, ManagerOK, Held
  <2>3. ManagerOK(Arm(t, "check")) /\ Arm(t, "check").armed # {} /\ SameLink(t, Arm(t, "check"))
    BY <2>2, ArmOK
  <2>4. ManagerOK(mgr') /\ (Held(mgr) => Held(mgr'))
    <3>1. Held(t) => Held(Arm(t, "check"))
      BY <2>3 DEF Held, SameLink
    <3>2. QED
      BY <2>1, <2>2, <2>3, <3>1
  <2>5. stranded' \in BOOLEAN
    BY <2>1
  <2>6. ASSUME mgr'.begun /\ ~mgr'.manual /\ ~stranded' PROVE Trying(mgr')
    <3>1. CASE mgr.manual
      BY <1>4, <2>1, <2>6, <3>1
    <3>2. CASE ~mgr.manual /\ mgr.handle # 0
      <4>1. mgr' = t /\ t.armed # {}
        BY <1>4, <2>1, <2>6, <3>2
      <4>2. QED
        BY <4>1 DEF Trying
    <3>3. CASE ~mgr.manual /\ mgr.handle = 0
      BY <2>1, <2>3, <3>3 DEF Trying
    <3>4. QED
      BY <3>1, <3>2, <3>3
  <2>7. QED
    BY <2>1, <2>4, <2>5, <2>6 DEF LinkInv
<1>7. QED
  BY <1>5, <1>6

-----------------------------------------------------------------------------
(* The handlers of a socket.                                               *)

\* A socket that is alive moves on among the live stages: the manager uses it.
LEMMA StageOK ==
  ASSUME NEW s, ManagerOK(s), NEW i \in DOMAIN s.socks, s.socks[i].at \in Live \ {"ready"},
         NEW stage \in Live \ {"ready"}
  PROVE  /\ ManagerOK(At(s, i, stage)) /\ Trying(At(s, i, stage))
         /\ Held(s) => Held(At(s, i, stage)) /\ s.ws = i
<1> DEFINE t == At(s, i, stage)
<1>1. /\ ManagerOK(t) /\ DOMAIN t.socks = DOMAIN s.socks /\ t.socks[i].at = stage
      /\ \A k \in DOMAIN s.socks \ {i} : t.socks[k] = s.socks[k]
      /\ t = [s EXCEPT !.socks = t.socks]
  BY AtOK DEF Stages
<1> HIDE DEF t
<1>2. t.ws = s.ws /\ t.authed = s.authed /\ t.status = s.status
  BY <1>1 DEF ManagerOK, Manager
<1>3. Trying(t)
  BY <1>1 DEF Trying, Live
<1>4. Held(s) => Held(t) /\ s.ws = i
  BY <1>1, <1>2 DEF Held, Live
<1>5. QED
  BY <1>1, <1>3, <1>4 DEF t

\* A socket that opened.
LEMMA LinkOpen == ASSUME LinkInv, NEW i \in DOMAIN mgr.socks, OnOpen(i) PROVE LinkInv'
<1> DEFINE s == IF mgr.handle = 0 THEN mgr ELSE Disarm(mgr)
<1>1. mgr' = At(s, i, "open") /\ Same
  BY DEF OnOpen, Sets
<1>2. ManagerOK(s) /\ SameLink(mgr, s)
  BY DisarmOK DEF LinkInv, SameLink
<1> HIDE DEF s
<1>3. i \in DOMAIN s.socks /\ s.socks[i].at = "opening"
  BY <1>2 DEF OnOpen, SameLink
<1>4. ManagerOK(At(s, i, "open")) /\ Trying(At(s, i, "open")) /\ (Held(s) => Held(At(s, i, "open")))
  BY <1>2, <1>3, StageOK DEF Live
<1>5. Held(mgr) => Held(s)
  BY <1>2 DEF Held, SameLink
<1>6. QED
  BY <1>1, <1>4, <1>5 DEF LinkInv, Same

\* The server asks who it is.
LEMMA LinkChallenge == ASSUME LinkInv, NEW i \in DOMAIN mgr.socks, OnChallenge(i) PROVE LinkInv'
<1>1. mgr.socks[i].at = "open" /\ ManagerOK(mgr) /\ Same
  BY DEF OnChallenge, LinkInv
<1>2. ManagerOK(At(mgr, i, "mute")) /\ Trying(At(mgr, i, "mute")) /\ (Held(mgr) => mgr.ws = i)
  BY <1>1, StageOK DEF Live
<1>3. CASE mgr.ws = i
  <2>1. mgr' = At(mgr, i, "answered")
    BY <1>3 DEF OnChallenge, Sets
  <2>2. ManagerOK(mgr') /\ Trying(mgr') /\ (Held(mgr) => Held(mgr'))
    BY <1>1, <2>1, StageOK DEF Live
  <2>3. QED
    BY <1>1, <2>2 DEF LinkInv, Same
<1>4. CASE mgr.ws # i
  <2> DEFINE t == At(mgr, i, "mute")
  <2>1. ~Held(mgr)
    BY <1>2, <1>4
  <2>2. CASE mgr' = t
    BY <1>1, <1>2, <2>1, <2>2 DEF LinkInv, Same
  <2>3. CASE Stage(mgr) \in {"open", "mute"} /\ mgr' = At(t, mgr.ws, "wronged")
    <3>1. mgr.ws # 0 /\ mgr.ws \in DOMAIN mgr.socks /\ mgr.socks[mgr.ws].at \in {"open", "mute"}
      BY <1>1, <2>3 DEF Stage, ManagerOK, Manager
    <3>2. /\ mgr.ws \in DOMAIN t.socks /\ t.socks[mgr.ws] = mgr.socks[mgr.ws]
      <4>1. "mute" \in Stages
        BY DEF Stages, Live
      <4>2. QED
        BY <1>1, <1>4, <3>1, <4>1, AtOK
    <3> HIDE DEF t
    <3>3. ManagerOK(t) /\ t.socks[mgr.ws].at \in Live \ {"ready"} /\ "wronged" \in Live \ {"ready"}
      BY <1>2, <3>1, <3>2 DEF Live, t
    <3>a. ManagerOK(At(t, mgr.ws, "wronged")) /\ Trying(At(t, mgr.ws, "wronged"))
      BY <3>2, <3>3, StageOK
    <3>4. QED
      BY <1>1, <2>1, <2>3, <3>a DEF LinkInv, Same
  <2>4. QED
    BY <1>4, <2>2, <2>3 DEF OnChallenge, Sets
<1>5. QED
  BY <1>3, <1>4

\* The server knows who it is.
LEMMA LinkAuthSuccess == ASSUME LinkInv, NEW i \in DOMAIN mgr.socks, OnAuthSuccess(i) PROVE LinkInv'
<1> DEFINE t == At(mgr, i, "ready")
<1>1. mgr' = [t EXCEPT !.authed = TRUE, !.tries = 0, !.status = "connected"] /\ Same
  BY DEF OnAuthSuccess, Sets
<1>2. mgr.socks[i].at = "answered" /\ ManagerOK(mgr)
  BY DEF OnAuthSuccess, LinkInv
<1>3. /\ ManagerOK(t) /\ DOMAIN t.socks = DOMAIN mgr.socks /\ t.socks[i].at = "ready"
      /\ \A k \in DOMAIN mgr.socks \ {i} : t.socks[k] = mgr.socks[k]
      /\ t = [mgr EXCEPT !.socks = t.socks]
  <2>1. "ready" \in Stages
    BY DEF Stages, Live
  <2>2. QED
    BY <1>2, <2>1, AtOK
<1> HIDE DEF t
<1>4. t \in Manager /\ t.ws = mgr.ws
  BY <1>2, <1>3 DEF ManagerOK, Manager
<1>5. [t EXCEPT !.authed = TRUE, !.tries = 0, !.status = "connected"] \in Manager
  BY <1>4 DEF Manager
<1>6. mgr' \in Manager
  BY <1>1, <1>5
<1>7. mgr'.socks = t.socks /\ mgr'.ws = mgr.ws /\ mgr'.armed = t.armed /\ mgr'.authed = TRUE
  BY <1>1, <1>4 DEF Manager
<1>8. ManagerOK(mgr') /\ Trying(mgr')
  BY <1>3, <1>4, <1>6, <1>7 DEF ManagerOK, Trying
<1>9. ASSUME Held(mgr) PROVE Held(mgr')
  <2>1. mgr.ws = i /\ i # 0
    BY <1>2, <1>9 DEF Held, Live, ManagerOK, Manager
  <2>2. QED
    BY <1>3, <1>7, <1>9, <2>1 DEF Held
<1>10. QED
  BY <1>1, <1>8, <1>9 DEF LinkInv, Same

\* auth_error closes the socket it came on and the one in use.
LEMMA LinkAuthError == ASSUME LinkInv, NEW i \in DOMAIN mgr.socks, OnAuthError(i) PROVE LinkInv'
<1> DEFINE s == [mgr EXCEPT !.authed = FALSE, !.status = "offline"]
           t == At(s, i, "closing")
           c == CloseWs(t)
<1>1. mgr' = c /\ Same
  BY DEF OnAuthError, Sets
<1>2. mgr.socks[i].at = "wronged" /\ ManagerOK(mgr)
  BY DEF OnAuthError, LinkInv
<1>3. /\ s \in Manager /\ s.socks = mgr.socks /\ s.ws = mgr.ws /\ s.armed = mgr.armed
      /\ s.authed = FALSE /\ s.status = "offline"
  BY <1>2 DEF ManagerOK, Manager
<1> HIDE DEF s
<1>4. ManagerOK(s) /\ i \in DOMAIN s.socks /\ (Held(mgr) => Held(s))
  BY <1>2, <1>3 DEF ManagerOK, Held
<1>5. "closing" \in Stages
  BY DEF Stages
<1>6. /\ ManagerOK(t) /\ DOMAIN t.socks = DOMAIN s.socks /\ t.socks[i].at = "closing"
      /\ \A k \in DOMAIN s.socks \ {i} : t.socks[k] = s.socks[k]
      /\ t = [s EXCEPT !.socks = t.socks]
  BY <1>4, <1>5, AtOK
<1> HIDE DEF t
<1>7. t.ws = s.ws /\ t.authed = FALSE /\ t.status = "offline"
  BY <1>3, <1>6 DEF Manager
<1>8. /\ ManagerOK(c) /\ DOMAIN c.socks = DOMAIN t.socks
      /\ \A k \in DOMAIN t.socks : k # t.ws => c.socks[k] = t.socks[k]
      /\ t.ws # 0 => c.socks[t.ws].at \notin Live
      /\ t.ws # 0 => t.ws \in DOMAIN t.socks
      /\ t.ws # 0 /\ t.socks[t.ws].at \notin Live => c.socks[t.ws] = t.socks[t.ws]
      /\ t.ws # 0 /\ t.socks[t.ws].at \in Live => c.socks[t.ws].at = "closing"
      /\ c = [t EXCEPT !.socks = c.socks]
  BY <1>6, CloseWsOK
<1> HIDE DEF c
<1>9. c.ws = t.ws /\ c.authed = FALSE /\ c.status = "offline"
  BY <1>6, <1>7, <1>8 DEF ManagerOK, Manager
<1>a. i \in DOMAIN c.socks /\ c.socks[i].at = "closing"
  <2>1. i \in DOMAIN t.socks /\ t.socks[i].at = "closing" /\ "closing" \notin Live
    BY <1>4, <1>6 DEF Live
  <2>2. CASE i # t.ws
    BY <1>8, <2>1, <2>2
  <2>3. CASE i = t.ws
    <3>1. t.ws # 0
      BY <1>2, <2>3 DEF ManagerOK, Manager
    <3>2. c.socks[t.ws] = t.socks[t.ws]
      BY <1>8, <2>1, <2>3, <3>1
    <3>3. QED
      BY <1>8, <2>1, <2>3, <3>2
  <2>4. QED
    BY <2>2, <2>3
<1>10. Trying(c)
  <2>1. i \in DOMAIN c.socks /\ c.socks[i].at # "gone"
    BY <1>a
  <2>2. QED
    BY <2>1 DEF Trying
<1>11. Held(mgr) => Held(c)
  <2>1. ASSUME Held(mgr), NEW k \in DOMAIN c.socks, c.socks[k].at \in Live PROVE c.ws = k
    <3>1. k # i
      BY <1>a, <2>1 DEF Live
    <3>2. CASE k = t.ws
      BY <1>9, <3>2
    <3>3. CASE k # t.ws
      BY <1>4, <1>6, <1>7, <1>8, <1>9, <2>1, <3>1, <3>3 DEF Held
    <3>4. QED
      BY <3>2, <3>3
  <2>2. QED
    BY <1>9, <2>1 DEF Held
<1>12. QED
  BY <1>1, <1>8, <1>10, <1>11 DEF LinkInv, Same

\* The close event.  Only of a socket the manager had let go of may it take
\* the state of another with it, and that is what crossed records.
LEMMA LinkCloses ==
  ASSUME LinkInv, NEW i \in DOMAIN mgr.socks, NEW failed \in BOOLEAN, Closes(i, failed)
  PROVE  LinkInv'
<1> DEFINE o == [mgr EXCEPT !.status = "offline"]
           s == IF failed THEN CloseWs(o) ELSE mgr
<1>1. /\ mgr' = Closed(s, i)
      /\ crossed' = (crossed \/ mgr.ws \notin {0, i})
      /\ UNCHANGED <<up, stranded>>
  BY DEF Closes, Sets
<1>2. ManagerOK(mgr)
  BY DEF LinkInv
<1>3. /\ o \in Manager /\ o.socks = mgr.socks /\ o.ws = mgr.ws /\ o.armed = mgr.armed
      /\ o.authed = mgr.authed /\ o.status = "offline" /\ o.manual = mgr.manual
      /\ o.begun = mgr.begun
  BY <1>2 DEF ManagerOK, Manager
<1> HIDE DEF o
<1>4. ManagerOK(o) /\ (Held(mgr) => Held(o))
  BY <1>2, <1>3 DEF ManagerOK, Held
<1>5. /\ ManagerOK(s) /\ s.ws = mgr.ws /\ s.manual = mgr.manual /\ DOMAIN s.socks = DOMAIN mgr.socks
      /\ Held(mgr) => Held(s)
  <2>1. CASE ~failed
    BY <1>2, <2>1
  <2>2. CASE failed
    <3> DEFINE c == CloseWs(o)
    <3>1. /\ ManagerOK(c) /\ DOMAIN c.socks = DOMAIN o.socks
          /\ \A k \in DOMAIN o.socks : k # o.ws => c.socks[k] = o.socks[k]
          /\ o.ws # 0 => o.ws \in DOMAIN o.socks
          /\ o.ws # 0 => c.socks[o.ws].at \notin Live
          /\ o.ws # 0 /\ o.socks[o.ws].at \notin Live => c.socks[o.ws] = o.socks[o.ws]
          /\ o.ws # 0 /\ o.socks[o.ws].at \in Live => c.socks[o.ws].at = "closing"
          /\ c = [o EXCEPT !.socks = c.socks]
      BY <1>4, CloseWsOK
    <3>2. s = c
      BY <2>2
    <3> HIDE DEF c, s
    <3>3. c.ws = o.ws /\ c.manual = o.manual /\ c.authed = o.authed /\ c.status = o.status
      BY <1>3, <3>1 DEF Manager
    <3>4. Held(o) => Held(c)
      BY <3>1, <3>3 DEF Held
    <3>5. QED
      BY <1>3, <1>4, <3>1, <3>2, <3>3, <3>4
  <2>3. QED
    BY <2>1, <2>2
<1> HIDE DEF s
<1>6. /\ ManagerOK(Closed(s, i)) /\ Closed(s, i).manual = s.manual
      /\ ~s.manual => Trying(Closed(s, i))
      /\ Held(s) /\ s.ws \in {0, i} => Held(Closed(s, i))
  BY <1>5, ClosedOK
<1>7. crossed' \in BOOLEAN /\ (crossed' \/ Held(mgr'))
  BY <1>1, <1>5, <1>6 DEF LinkInv
<1>8. QED
  BY <1>1, <1>5, <1>6, <1>7 DEF LinkInv

\* Every step of the client, the servers and the timers.
LEMMA LinkStep == LinkInv /\ [ConnectionNext]_connectionVars => LinkInv'
<1> SUFFICES ASSUME LinkInv, [ConnectionNext]_connectionVars PROVE LinkInv'
  OBVIOUS
<1>1. CASE Mount
  BY <1>1, LinkMount
<1>2. CASE Wake
  BY <1>2, LinkWake
<1>3. CASE Disconnect
  BY <1>3, LinkDisconnect
<1>4. CASE DiscoveryEnds
  BY <1>4, LinkDiscovery
<1>5. CASE \E a \in mgr.armed : Fire(a)
  BY <1>5, LinkFire
<1>6. CASE \E u \in mgr.checks : CheckEnds(u)
  BY <1>6, LinkCheckEnds
<1>7. ASSUME NEW i \in DOMAIN mgr.socks,
             OnOpen(i) \/ OnChallenge(i) \/ OnAuthSuccess(i) \/ OnAuthError(i) \/ SocketEnds(i)
      PROVE  LinkInv'
  BY <1>7, LinkOpen, LinkChallenge, LinkAuthSuccess, LinkAuthError, LinkCloses DEF SocketEnds
<1>8. CASE \E u \in Url : Fault(u)
  BY <1>8 DEF Fault, LinkInv
<1>9. CASE UNCHANGED connectionVars
  BY <1>9 DEF connectionVars, LinkInv
<1>10. QED
  BY <1>1, <1>2, <1>3, <1>4, <1>5, <1>6, <1>7, <1>8, <1>9 DEF ConnectionNext

\* What the invariant says of the properties the runs check.
LEMMA LinkImplies == LinkInv => ConnectionTypeOK /\ LinkIsHeld
<1> SUFFICES ASSUME LinkInv PROVE ConnectionTypeOK /\ LinkIsHeld
  OBVIOUS
<1>1. LinkIsHeld
  BY DEF LinkInv, LinkIsHeld, SocketIsHeld, KeepsTrying, Held, Trying
<1>2. mgr \in Manager /\ mgr.socks \in Seq(Socket)
  BY DEF LinkInv, ManagerOK, Manager
<1>3. \A i \in DOMAIN mgr.socks : mgr.socks[i].url \in Url /\ mgr.socks[i].at \in Stages
  <2>1. \A i \in DOMAIN mgr.socks : mgr.socks[i] \in Socket
    BY <1>2
  <2>2. QED
    BY <2>1 DEF Socket
<1>4. /\ {mgr.manual, mgr.authed, mgr.seeking, mgr.begun, crossed, stranded} \subseteq BOOLEAN
      /\ mgr.compat \cup mgr.checks \cup up \subseteq Url
      /\ mgr.status \in {"offline", "connecting", "reconnecting", "connected"}
      /\ mgr.list \in {Own, Own \o Relay} /\ mgr.ws \in 0 .. Len(mgr.socks)
  BY <1>2 DEF LinkInv, ManagerOK, Manager, Lists
<1>5. QED
  BY <1>1, <1>3, <1>4 DEF LinkInv, ManagerOK, ConnectionTypeOK

\* Type correctness of Connection.
THEOREM ConnectionTypeCorrect == ConnectionSpec => []ConnectionTypeOK
<1>1. ConnectionInit => LinkInv
  BY LinkInit
<1>2. LinkInv => ConnectionTypeOK
  BY LinkImplies
<1>3. QED
  BY <1>1, <1>2, LinkStep, PTL DEF ConnectionSpec

\* The client holds on to its link and to the attempt to have one: connect,
\* disconnect and the handlers of every socket ever opened, at any number of
\* sockets, servers, timers and attempts.
THEOREM LinkStaysHeld == ConnectionSpec => []LinkIsHeld
<1>1. ConnectionInit => LinkInv
  BY LinkInit
<1>2. LinkInv => LinkIsHeld
  BY LinkImplies
<1>3. QED
  BY <1>1, <1>2, LinkStep, PTL DEF ConnectionSpec

-----------------------------------------------------------------------------
(* The page.                                                               *)

\* Each part of the page keeps its invariant, and stands still while another moves.
LEMMA DeviceStep ==
  /\ AccountInv /\ [DeviceNext]_deviceVars => AccountInv'
  /\ ConversationInv /\ [DeviceNext]_deviceVars => ConversationInv'
  /\ LinkInv /\ [DeviceNext]_deviceVars => LinkInv'
<1>1. [DeviceNext]_deviceVars =>
        [AccountNext]_accountVars /\ [ConversationNext]_conversationVars /\ [ConnectionNext]_connectionVars
  BY DEF DeviceNext, deviceVars
<1>2. QED
  BY <1>1, AccountStep, ConversationStep, LinkStep

\* Type correctness of the page: of its account, its conversations and its connection.
THEOREM DeviceTypesCorrect == DeviceSpec => []TypesOK
<1>1. DeviceInit => AccountInv /\ ConversationInv /\ LinkInv
  BY AccountStart, ConversationStart, LinkInit DEF DeviceInit
<1>2. AccountInv /\ ConversationInv /\ LinkInv => TypesOK
  BY AccountGives, ConversationGives, LinkImplies DEF TypesOK
<1>3. QED
  BY <1>1, <1>2, DeviceStep, PTL DEF DeviceSpec
=============================================================================
