------------------------------ MODULE Account ------------------------------
(***************************************************************************)
(* Who is signed in on this device: the keys in the store, the PIN and the *)
(* PIN-sealed copy of the identity in localStorage, the database of the    *)
(* identity and the vault key that seals its rows, from sign-in and unlock *)
(* to lock, logout and panic reset.  An identity stands for its key pair   *)
(* and for the name of its database; a PIN stands for its hash; a row is   *)
(* who wrote it and the key it was sealed with.  Every await of a handler  *)
(* that leaves the page free to do something else (key derivation, the     *)
(* server, IndexedDB) ends a step: the rest of the handler is a task.      *)
(***************************************************************************)
EXTENDS Naturals, FiniteSets

CONSTANTS Identity,    \* identities whose seed phrase is at hand
          Pin,         \* PINs
          None,        \* no identity, no PIN; also the name of the default database
          MaxTasks,    \* bound: handlers begun and not finished
          MaxDeeds     \* bound: handlers begun in a run, reloads included

ASSUME AccountAssumption == None \notin Identity /\ None \notin Pin

VARIABLES key,      \* myPublicKey and mySecretKey in the store
          locked, pin, remembered,  \* isLocked, pinHash, isIdentityRemembered
          base,     \* db: [name, open], the active database
          vault,    \* vaultKey in db.ts
          disk,     \* localStorage: [pin, box, names, nick]
          rows,     \* rows[n]: the rows of database n, [by, seal]
          todo,     \* handlers waiting for an await
          wiping,   \* "no", or the wipe whose deletions are running
          wiped,    \* identities wiped and not signed in since
          rash,     \* a PIN task was overlapped by another PIN step, a wipe or a reload
          late,     \* a wipe began while a handler was still to write
          deeds

accountVars == <<key, locked, pin, remembered, base, vault, disk, rows, todo, wiping, wiped,
                 rash, late, deeds>>
shownVars == <<key, locked, pin, remembered>>

Name == Identity \cup {None}
Waiting == [do : {"login", "verify", "open", "hash", "seal", "write", "profile"},
         who : Name, pin : Pin \cup {None}, secret : BOOLEAN]
Handler(do, who, p, secret) == [do |-> do, who |-> who, pin |-> p, secret |-> secret]
PinTasks == {t \in todo : t.do \in {"hash", "seal"}}
Writers == {t \in todo : t.do \in {"write", "profile"}}

\* The keys in the store, the open database and the vault always belong
\* together, except while a sign-in is on its way.
AccountTypeOK ==
    /\ key \in Name /\ locked \in BOOLEAN /\ pin \in Pin \cup {None} /\ remembered \in BOOLEAN
    /\ base \in [name : Name, open : BOOLEAN] /\ vault \in Name
    /\ disk.pin \in Pin \cup {None} /\ disk.box \in [who : Name, pin : Pin \cup {None}]
    /\ disk.names \subseteq Identity /\ disk.nick \in Name
    /\ \A n \in Name : rows[n] \subseteq [by : Identity, seal : Name]
    /\ todo \subseteq Waiting /\ wiping \in {"no", "logout", "panic"} /\ wiped \subseteq Identity
    /\ key # None => base = [name |-> key, open |-> TRUE] /\ vault = key
    /\ key = None => vault = None

NoBox == [who |-> None, pin |-> None]
NoDisk == [pin |-> None, box |-> NoBox, names |-> {}, nick |-> None]
DefaultBase == [name |-> None, open |-> TRUE]

AccountInit ==
    /\ key = None /\ locked = FALSE /\ pin = None /\ remembered = FALSE
    /\ base = DefaultBase /\ vault = None /\ disk = NoDisk
    /\ rows = [n \in Name |-> {}]
    /\ todo = {} /\ wiping = "no" /\ wiped = {} /\ rash = FALSE /\ late = FALSE /\ deeds = 0

Begins(t) == /\ deeds < MaxDeeds /\ deeds' = deeds + 1
             /\ Cardinality(todo) < MaxTasks /\ t \notin todo
             /\ todo' = todo \cup {t}
Ends(t) == todo' = todo \ {t} /\ UNCHANGED deeds
Deed == deeds < MaxDeeds /\ deeds' = deeds + 1
Unwiped == wiping = "no"

----------------------------------------------------------------------------
(* Signing in.                                                             *)

\* persistIdentityKeyPair, on its own once the keys are in the store.
Persists(who) == Handler("write", who, None, TRUE)

\* Mutant: setKeys leaves the active database as it is.
SetKeysOnly(who) ==
    /\ base' = base
    /\ vault' = who
    /\ key' = who
    /\ wiped' = wiped \ {who}

\* setKeys: the database and the vault change hands, the key pair is
\* written to the new database (persistIdentityKeyPair) by a task.
SetKeys(who) ==
    /\ base' = [name |-> who, open |-> TRUE]
    /\ vault' = who
    /\ key' = who
    /\ wiped' = wiped \ {who}

\* Auth: performLogin derives the keys, opens the database, asks the server
\* for the profile.
LoginBegins(who) ==
    /\ Unwiped /\ key = None /\ ~locked /\ \A t \in todo : t.do # "login"
    /\ Begins(Handler("login", who, None, FALSE))
    /\ base' = [name |-> who, open |-> TRUE]
    /\ UNCHANGED <<shownVars, vault, disk, rows, wiping, wiped, rash, late>>

LoginEnds(t) ==
    /\ t.do = "login" /\ Unwiped
    /\ SetKeys(t.who)
    /\ remembered' = (disk.box # NoBox)
    /\ disk' = [disk EXCEPT !.names = @ \cup {t.who}, !.nick = t.who]
    /\ todo' = (todo \ {t}) \cup {Persists(t.who)}
    /\ UNCHANGED <<locked, pin, rows, wiping, rash, late, deeds>>

\* LockScreen: four digits and OK.
UnlockBegins(p) ==
    /\ Unwiped /\ locked /\ pin # None
    /\ Begins(Handler("verify", key, p, p = pin))
    /\ UNCHANGED <<shownVars, base, vault, disk, rows, wiping, wiped, rash, late>>

\* verifyPin has answered: a signed-in session is shown again, a remembered
\* identity is opened with the same PIN.
UnlockVerified(t) ==
    /\ t.do = "verify"
    /\ UNCHANGED <<key, pin, remembered, base, vault, disk, rows, wiping, wiped, rash, late, deeds>>
    /\ IF t.secret /\ t.who = None /\ remembered
       THEN todo' = (todo \ {t}) \cup {Handler("open", None, t.pin, FALSE)} /\ UNCHANGED locked
       ELSE todo' = todo \ {t} /\ locked' = (locked /\ ~t.secret)

\* restoreRememberedIdentityWithPin: a wrong PIN does not open the box.
Opens(p) == disk.box # NoBox /\ disk.box.pin = p

\* unlockRememberedIdentity has its key pair, or null.
UnlockOpens(t) ==
    /\ t.do = "open" /\ Unwiped
    /\ IF Opens(t.pin)
       THEN /\ SetKeys(disk.box.who)
            /\ locked' = FALSE /\ remembered' = TRUE
            /\ todo' = (todo \ {t}) \cup {Persists(disk.box.who)}
       ELSE /\ todo' = todo \ {t}
            /\ UNCHANGED <<base, vault, key, wiped, locked, remembered>>
    /\ UNCHANGED <<pin, disk, rows, wiping, rash, late, deeds>>

----------------------------------------------------------------------------
(* The PIN and the remembered identity.                                    *)

\* lockApp, by hand or after the minutes of inactivity.
LockApp ==
    /\ Unwiped /\ key # None /\ pin # None /\ ~locked
    /\ locked' = TRUE
    /\ UNCHANGED <<key, pin, remembered, base, vault, disk, rows, todo, wiping, wiped, rash, late, deeds>>

\* handleSavePin: the hash is computed,
SavePin(p) ==
    /\ Unwiped /\ key # None /\ ~locked
    /\ Begins(Handler("hash", key, p, FALSE))
    /\ rash' = (rash \/ PinTasks # {})
    /\ UNCHANGED <<shownVars, base, vault, disk, rows, wiping, wiped, late>>

\* Mutant: a new PIN leaves the copy of the identity sealed with the old one.
PinHashedOnly(t) ==
    /\ t.do = "hash"
    /\ pin' = t.pin /\ disk' = [disk EXCEPT !.pin = t.pin]
    /\ todo' = todo \ {t}
    /\ UNCHANGED <<key, locked, remembered, base, vault, rows, wiping, wiped, rash, late, deeds>>

\* stored (setPinHash), and the identity is sealed with the new PIN.
PinHashed(t) ==
    /\ t.do = "hash"
    /\ pin' = t.pin /\ disk' = [disk EXCEPT !.pin = t.pin]
    /\ todo' = (todo \ {t}) \cup {Handler("seal", t.who, t.pin, FALSE)}
    /\ UNCHANGED <<key, locked, remembered, base, vault, rows, wiping, wiped, rash, late, deeds>>

\* rememberIdentityWithPin has encrypted its copy.
BoxSealed(t) ==
    /\ t.do = "seal"
    /\ disk' = [disk EXCEPT !.box = [who |-> t.who, pin |-> t.pin]]
    /\ remembered' = TRUE
    /\ Ends(t)
    /\ UNCHANGED <<key, locked, pin, base, vault, rows, wiping, wiped, rash, late>>

\* handleRememberDevice, after verifyPin.
RememberDevice ==
    /\ Unwiped /\ key # None /\ ~locked /\ pin # None
    /\ Begins(Handler("seal", key, pin, FALSE))
    /\ rash' = (rash \/ PinTasks # {})
    /\ UNCHANGED <<shownVars, base, vault, disk, rows, wiping, wiped, late>>

\* handleForgetDevice.
ForgetDevice ==
    /\ Unwiped /\ key # None /\ ~locked /\ disk.box # NoBox /\ Deed
    /\ disk' = [disk EXCEPT !.box = NoBox] /\ remembered' = FALSE
    /\ rash' = (rash \/ PinTasks # {})
    /\ UNCHANGED <<key, locked, pin, base, vault, rows, todo, wiping, wiped, late>>

\* handleRemovePin.
RemovePin ==
    /\ Unwiped /\ key # None /\ ~locked /\ pin # None /\ Deed
    /\ disk' = [disk EXCEPT !.box = NoBox, !.pin = None]
    /\ pin' = None /\ remembered' = FALSE
    /\ rash' = (rash \/ PinTasks # {})
    /\ UNCHANGED <<key, locked, base, vault, rows, todo, wiping, wiped, late>>

----------------------------------------------------------------------------
(* Handlers that write.                                                    *)

\* An envelope or an answer of the server is being handled for the identity
\* signed in; secret rows are sealed by the hooks of the database.
WriteBegins(secret) ==
    /\ Unwiped /\ key # None
    /\ Begins(Handler("write", key, None, secret))
    /\ UNCHANGED <<shownVars, base, vault, disk, rows, wiping, wiped, rash, late>>

\* The write goes to the database that is active by now, if it is open;
\* a secret cannot be sealed without the vault key.
WriteEnds(t) ==
    /\ t.do = "write"
    /\ Ends(t)
    /\ rows' = IF base.open /\ (t.secret => vault # None)
               THEN [rows EXCEPT ![base.name] =
                       @ \cup {[by |-> t.who, seal |-> IF t.secret THEN vault ELSE None]}]
               ELSE rows
    /\ UNCHANGED <<shownVars, base, vault, disk, wiping, wiped, rash, late>>

\* refreshOwnProfile: setProfile writes the settings whoever is signed in by now.
ProfileBegins ==
    /\ Unwiped /\ key # None
    /\ Begins(Handler("profile", key, None, FALSE))
    /\ UNCHANGED <<shownVars, base, vault, disk, rows, wiping, wiped, rash, late>>

ProfileEnds(t) ==
    /\ t.do = "profile"
    /\ Ends(t)
    /\ disk' = [disk EXCEPT !.nick = t.who, !.names = @ \cup ({key} \ {None})]
    /\ UNCHANGED <<shownVars, base, vault, rows, wiping, wiped, rash, late>>

\* handleSaveProfile of the settings.
SaveProfile ==
    /\ Unwiped /\ key # None /\ ~locked /\ Deed
    /\ disk' = [disk EXCEPT !.nick = key, !.names = @ \cup {key}]
    /\ UNCHANGED <<shownVars, base, vault, rows, todo, wiping, wiped, rash, late>>

----------------------------------------------------------------------------
(* Leaving.                                                                *)

\* What the page knows after a load: the PIN hash, and a box that is kept
\* only together with a PIN (restoreRememberedIdentity).
Loaded(d) ==
    LET known == d.box # NoBox /\ d.pin # None IN
    /\ key' = None /\ pin' = d.pin /\ locked' = known /\ remembered' = known
    /\ disk' = IF known THEN d ELSE [d EXCEPT !.box = NoBox]
    /\ base' = DefaultBase /\ vault' = None /\ todo' = {} /\ wiping' = "no"

\* The page is reloaded, closed and opened again, or crashes.
Reload ==
    /\ Unwiped /\ Deed
    /\ Loaded(disk)
    /\ rash' = (rash \/ PinTasks # {})
    /\ UNCHANGED <<rows, wiped, late>>

WipeStarts(kind, who) ==
    /\ Unwiped /\ key # None /\ ~locked /\ Deed
    /\ wiping' = kind /\ wiped' = wiped \cup who
    /\ rash' = (rash \/ PinTasks # {})
    /\ late' = (late \/ Writers # {})

\* logout of the store.
SignedOut == key' = None /\ pin' = None /\ locked' = FALSE /\ remembered' = FALSE

\* Sidebar and SettingsModal, handleLogout: settings, box and keys go at
\* once, the deletion of the two databases is started.
Logout ==
    /\ WipeStarts("logout", {key})
    /\ disk' = NoDisk
    /\ SignedOut
    /\ vault' = None /\ base' = [name |-> None, open |-> FALSE]
    /\ rows' = [rows EXCEPT ![key] = {}, ![None] = {}]
    /\ UNCHANGED todo

\* handlePanicReset and panicResetLocalState: every key of the app and every
\* database the browser lists; the store is emptied at the end.
PanicReset ==
    /\ WipeStarts("panic", Identity)
    /\ disk' = NoDisk
    /\ vault' = None /\ key' = None /\ base' = [name |-> None, open |-> FALSE]
    /\ rows' = [n \in Name |-> {}]
    /\ UNCHANGED <<locked, pin, remembered, todo>>

\* resetActiveDatabase opens an empty default database before logout() and
\* the reload.
PanicReopens ==
    /\ wiping = "panic" /\ ~base.open
    /\ base' = DefaultBase
    /\ UNCHANGED <<shownVars, vault, disk, rows, todo, wiping, wiped, rash, late, deeds>>

\* window.location.reload() or assign('/').
WipeEnds ==
    /\ ~Unwiped /\ (wiping = "panic" => base.open)
    /\ Loaded(IF wiping = "panic" THEN [disk EXCEPT !.box = NoBox] ELSE disk)
    /\ UNCHANGED <<rows, wiped, rash, late, deeds>>

AccountNext ==
    \/ \E who \in Identity : LoginBegins(who)
    \/ \E p \in Pin : UnlockBegins(p) \/ SavePin(p)
    \/ \E t \in todo : \/ LoginEnds(t) \/ UnlockVerified(t) \/ UnlockOpens(t)
                       \/ PinHashed(t) \/ BoxSealed(t) \/ WriteEnds(t) \/ ProfileEnds(t)
    \/ LockApp \/ RememberDevice \/ ForgetDevice \/ RemovePin
    \/ \E s \in BOOLEAN : WriteBegins(s)
    \/ ProfileBegins \/ SaveProfile \/ Reload \/ Logout \/ PanicReset \/ PanicReopens \/ WipeEnds

AccountSpec == AccountInit /\ [][AccountNext]_accountVars

----------------------------------------------------------------------------
(* Properties.                                                             *)

\* The PIN that unlocks the screen also opens the remembered identity, as
\* long as no step cut into a change of the PIN: otherwise the lock screen
\* accepts the PIN and can never sign in.
PinOpensBox ==
    ~rash /\ PinTasks = {} /\ disk.box # NoBox /\ disk.pin # None => disk.box.pin = disk.pin

\* A row lies in the database of the identity it was written for, sealed
\* with that identity's key.
RowsAreOwn ==
    late \/ \A n \in Name : \A r \in rows[n] : r.by = n /\ r.seal \in {n, None}

\* After a logout or a panic reset nothing of the identity is left on the
\* device, unless a handler was at work when the wipe began.
WipeIsFinal ==
    Unwiped /\ ~rash /\ ~late =>
        \A who \in wiped : /\ rows[who] = {} /\ \A n \in Name : \A r \in rows[n] : r.by # who
                           /\ disk.box.who # who /\ who \notin disk.names /\ disk.nick # who

\* What an identity wrote stays in its own database while it is in use and
\* is gone after it has been wiped.
DataStaysOwn == RowsAreOwn /\ WipeIsFinal
=============================================================================
