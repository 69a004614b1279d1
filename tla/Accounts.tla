------------------------------- MODULE Accounts -------------------------------
(***************************************************************************)
(* Getting into an account: the temporary, reset and manual passwords of   *)
(* src/src/auth/auth.service.ts and users.service.ts with the mails that   *)
(* carry them, the codes and links that prove who asks, and the rows of    *)
(* user_devices (common/upsert-user-device.ts) that keep each installation *)
(* of the app signed in or throw it out.                                   *)
(*                                                                         *)
(* One account.  A handler runs in pieces, cut at its awaits.  A request   *)
(* names the password, code or link that it makes; a request about         *)
(* credentials takes its slot for good, one about devices gives it back.   *)
(***************************************************************************)
EXTENDS Naturals

CONSTANTS
  Reqs,     \* slots for requests, numbered: a request takes the first that is free
  Phones,   \* installations of the app, each with its own slot for foreground syncs
  Rows,     \* ids of user_devices, none of them given twice
  Mixes,    \* accounts to begin with, and the requests looked at
  Gone,     \* a row that was deleted
  NULL

\* Kinds of requests about credentials and about devices, and how they end.
Credential == {"email", "google", "mobile", "change", "status", "driver", "forgot", "login", "reset", "verify"}
OfDevices == {"register", "sync", "remove", "erase", "others", "block", "unblock"}
Outcomes == {"ok", "failed", "refused"}

ASSUME NullAssumption ==
  /\ NULL # 0 /\ NULL \notin Credential \cup OfDevices \cup Outcomes
  /\ {NULL, Gone} \cap (Reqs \cup Phones \cup Rows) = {}
ASSUME SlotsAssumption == Reqs \subseteq Nat \ {0} /\ Rows \subseteq Nat /\ Reqs \cap Phones = {}
ASSUME MixesAssumption ==
  \A m \in Mixes :
    /\ DOMAIN m.model = Phones /\ m.app \in [Phones -> {"old", "new"}]
    /\ m.reqs \subseteq Reqs /\ m.ids \subseteq Rows /\ m.from \subseteq Phones \cup {NULL}
    /\ m.user \in [status : {"ACTIVE", "INACTIVE"}, password : {0, NULL}]
    /\ {NULL, Gone} \cap [dev : Phones \cup {NULL}, like : {m.model[p] : p \in Phones}, blocked : BOOLEAN] = {}

VARIABLES
  user,      \* status and password of the account
  known,     \* passwords that its owner has been given or has chosen
  stuck,     \* passwords written whose mail failed and that no rollback took back
  links,     \* password_reset_tokens, by the request that made them
  codes,     \* otp_codes, likewise
  rows,      \* user_devices of the account
  app,       \* whether an installation sends its stable deviceId
  session,   \* whether it is signed in
  news,      \* the deviceDeactivated events on their way to it
  req,
  mix

credentials == <<user, known, stuck, links, codes>>
devices == <<rows, app, session, news>>
vars == <<credentials, devices, req, mix>>

-----------------------------------------------------------------------------
Slots == Reqs \cup Phones
First == 0
Passwords == Reqs \cup {First}
Row == [dev : Phones \cup {NULL}, like : {mix.model[p] : p \in Phones}, blocked : BOOLEAN]
Account == [status : {"ACTIVE", "INACTIVE"}, password : Passwords \cup {NULL}]
Stages ==
  {"idle", "access", "write", "mail", "activate", "rollback", "clear", "link", "code", "send", "set", "spend",
   "find", "findOld", "update", "updateOld", "orphans", "legacy", "merge", "create", "createOld",
   "tell", "delete", "mark", "done"}
Request ==
  [kind : Credential \cup OfDevices \cup {NULL}, at : Stages, read : Account \cup {NULL}, of : Slots \cup Rows \cup {NULL},
   row : Rows \cup {NULL}, before : SUBSET Reqs, out : Outcomes \cup {NULL}]
Idle == [kind |-> NULL, at |-> "idle", read |-> NULL, of |-> NULL, row |-> NULL,
         before |-> {}, out |-> NULL]

\* Where request r stands, and how it ends.  before: those that ended before it began.
Enter(r, k, at, x) ==
  /\ req[r] = Idle
  /\ r \in mix.reqs \cup Phones
  /\ \A q \in Reqs : r \in Reqs /\ q < r => req[q] # Idle
  /\ k \in mix.kinds
  /\ req' = [req EXCEPT ![r] = [kind |-> k, at |-> at, read |-> user, of |-> x, row |-> NULL,
                                before |-> {q \in Reqs : req[q].at = "done"}, out |-> NULL]]
Stand(r, at) == req' = [req EXCEPT ![r].at = at]
End(r, out) == req' = [req EXCEPT ![r] = [req[r] EXCEPT !.at = "done", !.out = out]]
Free(r) == req' = [req EXCEPT ![r] = Idle]
At(r, k, at) == req[r].kind = k /\ req[r].at = at

Live == {i \in Rows : rows[i] \notin {NULL, Gone}}
RowOf(p) == {i \in Live : rows[i].dev = p}
Legacy == {i \in Live : rows[i].dev = NULL}
NextRow == {i \in mix.ids : rows[i] = NULL /\ \A j \in Rows : j < i => rows[j] # NULL}
\* getUserDeviceAccessState() with isDeviceBlockedForLogin() and shouldForceLogoutForDeviceAccess().
Blocked(p) == \E i \in RowOf(p) : rows[i].blocked
Unwelcome(p) == RowOf(p) = {} \/ Blocked(p)

-----------------------------------------------------------------------------
\* loginWithEmail(): who needs no temporary password is sent to the password page.
Settled(u) == u.status = "ACTIVE" /\ u.password # NULL

EmailLogin(r) ==
  /\ \E p \in mix.from :
       Enter(r, "email", IF p # NULL THEN "access" ELSE IF Settled(user) THEN "done" ELSE "write", p)
  /\ UNCHANGED <<credentials, devices, mix>>

CheckAccess(r) ==
  /\ At(r, "email", "access")
  /\ IF Blocked(req[r].of) THEN End(r, "refused")
     ELSE IF Settled(req[r].read) THEN End(r, "ok")
     ELSE Stand(r, "write")
  /\ UNCHANGED <<credentials, devices, mix>>

\* handleGoogleCallback(), resetPasswordForMobile(), changePassword(): the user is read.
AskPassword(r) ==
  /\ \/ Enter(r, "google", IF user.status = "INACTIVE" /\ user.password = NULL
                           THEN "write" ELSE "done", NULL)
     \/ \E k \in {"mobile", "change"} : Enter(r, k, "write", NULL)
  /\ UNCHANGED <<credentials, devices, mix>>

\* The new password is written before its mail; Google's callback activates with it.
WritePassword(r) ==
  /\ req[r].at = "write"
  /\ user' = [user EXCEPT !.password = r,
                          !.status = IF req[r].kind = "google" THEN "ACTIVE" ELSE @]
  /\ known' = IF req[r].kind = "change" THEN known \cup {r} ELSE known
  /\ Stand(r, "mail")
  /\ UNCHANGED <<stuck, links, codes, devices, mix>>

Activate(r) ==
  /\ At(r, "email", "activate")
  /\ user' = [user EXCEPT !.status = "ACTIVE"]
  /\ End(r, "ok")
  /\ UNCHANGED <<known, stuck, links, codes, devices, mix>>

MailPassword(r) ==
  /\ req[r].at = "mail"
  /\ known' = known \cup {r}
  /\ IF req[r].kind = "email" /\ req[r].read.status # "ACTIVE" THEN Stand(r, "activate") ELSE End(r, "ok")
  /\ UNCHANGED <<user, stuck, links, codes, devices, mix>>

\* Mutant: the email login does not take back what it could not mail.
FailPasswordUnrolled(r) ==
  /\ mix.fails
  /\ req[r].at = "mail"
  /\ stuck' = IF req[r].kind \in {"google", "mobile"} THEN stuck \cup {r} ELSE stuck
  /\ End(r, IF req[r].kind = "google" THEN "ok" ELSE "failed")
  /\ UNCHANGED <<user, known, links, codes, devices, mix>>

\* The mail fails: only the email login takes its password back.
FailPassword(r) ==
  /\ mix.fails
  /\ req[r].at = "mail"
  /\ stuck' = IF req[r].kind \in {"google", "mobile"} THEN stuck \cup {r} ELSE stuck
  /\ IF req[r].kind = "email" THEN Stand(r, "rollback")
     ELSE End(r, IF req[r].kind = "google" THEN "ok" ELSE "failed")
  /\ UNCHANGED <<user, known, links, codes, devices, mix>>

\* The rollback to the password that was read, which may fail as well.
Rollback(r) ==
  /\ At(r, "email", "rollback")
  /\ \/ user' = [user EXCEPT !.password = req[r].read.password] /\ stuck' = stuck
     \/ user' = user /\ stuck' = stuck \cup {r}
  /\ End(r, "failed")
  /\ UNCHANGED <<known, links, codes, devices, mix>>

\* changeUserStatus().
SetStatus(r) ==
  /\ Enter(r, "status", "done", NULL)
  /\ \E s \in {"ACTIVE", "INACTIVE"} : user' = [user EXCEPT !.status = s]
  /\ UNCHANGED <<known, stuck, links, codes, devices, mix>>

\* Mutant: the codes sent before stay good.
SetDriverKept(r) ==
  /\ Enter(r, "driver", "done", NULL)
  /\ user' = [user EXCEPT !.password = r]
  /\ known' = known \cup {r}
  /\ codes' = [codes EXCEPT ![r] = "fresh"]
  /\ UNCHANGED <<stuck, links, devices, mix>>

\* setDriverPasswordAndOtp(): one transaction.
SetDriver(r) ==
  /\ Enter(r, "driver", "done", NULL)
  /\ user' = [user EXCEPT !.password = r]
  /\ known' = known \cup {r}
  /\ codes' = [q \in Reqs |-> IF q = r THEN "fresh" ELSE IF codes[q] = "fresh" THEN "used" ELSE codes[q]]
  /\ UNCHANGED <<stuck, links, devices, mix>>

-----------------------------------------------------------------------------
\* forgotPassword(): the old links go, the new one is made and mailed.
Forgot(r) ==
  /\ Enter(r, "forgot", "clear", NULL)
  /\ UNCHANGED <<credentials, devices, mix>>

ClearLinks(r) ==
  /\ At(r, "forgot", "clear")
  /\ links' = [q \in Reqs |-> IF links[q] = "none" THEN "none" ELSE "deleted"]
  /\ Stand(r, "link")
  /\ UNCHANGED <<user, known, stuck, codes, devices, mix>>

MakeLink(r) ==
  /\ At(r, "forgot", "link")
  /\ links' = [links EXCEPT ![r] = "fresh"]
  /\ Stand(r, "send")
  /\ UNCHANGED <<user, known, stuck, codes, devices, mix>>

\* loginWithOtp(): validateUser() wants an active account and its password.
Login(r) ==
  /\ user.password \in known
  /\ Enter(r, "login", IF user.status = "ACTIVE" THEN "code" ELSE "done", NULL)
  /\ UNCHANGED <<credentials, devices, mix>>

MakeCode(r) ==
  /\ At(r, "login", "code")
  /\ codes' = [codes EXCEPT ![r] = "fresh"]
  /\ Stand(r, "send")
  /\ UNCHANGED <<user, known, stuck, links, devices, mix>>

\* The mail with the link or code of r.
Send(r) ==
  /\ req[r].at = "send"
  /\ \/ End(r, "ok")
     \/ mix.fails /\ End(r, "failed")
  /\ UNCHANGED <<credentials, devices, mix>>

\* The owner has the link or code of q.
Sent(q) == req[q].at = "done" /\ (req[q].kind = "driver" \/ req[q].out = "ok")

\* resetPassword() and verifyOtp() look the link or code up: unused and not expired.
Present(r) ==
  /\ \E q \in {x \in Reqs : Sent(x)} :
       \/ req[q].kind = "forgot" /\ Enter(r, "reset", IF links[q] = "fresh" THEN "set" ELSE "done", q)
       \/ /\ req[q].kind \in {"login", "driver"}
          /\ Enter(r, "verify", IF codes[q] = "fresh" THEN "spend" ELSE "done", q)
  /\ UNCHANGED <<credentials, devices, mix>>

\* Its transaction wants the link's row, whatever became of the link meanwhile.
ResetPassword(r) ==
  /\ At(r, "reset", "set")
  /\ LET q == req[r].of
     IN IF links[q] = "deleted"
        THEN /\ End(r, "failed")
             /\ UNCHANGED <<user, known, links>>
        ELSE /\ End(r, "ok")
             /\ user' = [user EXCEPT !.password = r]
             /\ known' = known \cup {r}
             /\ links' = [links EXCEPT ![q] = "used"]
  /\ UNCHANGED <<stuck, codes, devices, mix>>

\* The code is marked by its id, used meanwhile or not; tokens follow.
SpendCode(r) ==
  /\ At(r, "verify", "spend")
  /\ codes' = [codes EXCEPT ![req[r].of] = "used"]
  /\ End(r, "ok")
  /\ UNCHANGED <<user, known, stuck, links, devices, mix>>

\* A link lasts an hour, a code five minutes or a day.
Expire(q) ==
  /\ \/ links[q] = "fresh" /\ links' = [links EXCEPT ![q] = "expired"] /\ codes' = codes
     \/ codes[q] = "fresh" /\ codes' = [codes EXCEPT ![q] = "expired"] /\ links' = links
  /\ UNCHANGED <<user, known, stuck, devices, req, mix>>

-----------------------------------------------------------------------------
\* A phone signs in, or moves to an app that sends a deviceId.
SignIn(p) ==
  /\ p \in mix.phones
  /\ session[p] = "out"
  /\ session' = [session EXCEPT ![p] = "in"]
  /\ UNCHANGED <<credentials, rows, app, news, req, mix>>

Upgrade(p) ==
  /\ p \in mix.phones
  /\ app[p] = "old"
  /\ app' = [app EXCEPT ![p] = "new"]
  /\ UNCHANGED <<credentials, rows, session, news, req, mix>>

\* registerMobileDevice(): a blocked device is refused and its client signs out.
Register(r, p) ==
  /\ r \in mix.reqs
  /\ session[p] = "in"
  /\ req[r] = Idle
  /\ "register" \in mix.kinds
  /\ IF app[p] = "new" /\ Blocked(p)
     THEN /\ session' = [session EXCEPT ![p] = "out"]
          /\ UNCHANGED req
     ELSE /\ Enter(r, "register", IF app[p] = "new" THEN "find" ELSE "findOld", p)
          /\ UNCHANGED session
  /\ UNCHANGED <<credentials, rows, app, news, mix>>

\* Mutant: a removed device is only not updated.
SyncLenient(p) ==
  /\ session[p] = "in"
  /\ req[p] = Idle
  /\ p \in mix.syncs
  /\ IF app[p] = "new" /\ Blocked(p)
     THEN /\ session' = [session EXCEPT ![p] = "out"]
          /\ UNCHANGED req
     ELSE /\ Enter(p, "sync", IF app[p] = "new" THEN "find" ELSE "findOld", p)
          /\ UNCHANGED session
  /\ UNCHANGED <<credentials, rows, app, news, mix>>

\* recordUserLastActiveApp(), when the app comes to the foreground: a device that
\* was removed or blocked is told to sign out.
Sync(p) ==
  /\ session[p] = "in"
  /\ req[p] = Idle
  /\ p \in mix.syncs
  /\ IF app[p] = "new" /\ Unwelcome(p)
     THEN /\ session' = [session EXCEPT ![p] = "out"]
          /\ UNCHANGED req
     ELSE /\ Enter(p, "sync", IF app[p] = "new" THEN "find" ELSE "findOld", p)
          /\ UNCHANGED session
  /\ UNCHANGED <<credentials, rows, app, news, mix>>

\* upsertUserDeviceSnapshot() and upsertUserDeviceLegacySnapshot() look for the
\* row to update; only a registration goes on without one.
FindRow(r) ==
  /\ req[r].at \in {"find", "findOld"}
  /\ LET found == IF req[r].at = "find" THEN RowOf(req[r].of) ELSE Legacy
     IN IF found # {}
        THEN \E i \in found :
               req' = [req EXCEPT ![r] = [req[r] EXCEPT !.at = IF req[r].at = "find" THEN "update" ELSE "updateOld",
                                                        !.row = i]]
        ELSE IF req[r].kind = "sync" THEN Free(r)
        ELSE Stand(r, IF req[r].at = "find" THEN "legacy" ELSE "createOld")
  /\ UNCHANGED <<credentials, devices, mix>>

\* The snapshot goes to the row by its id, unless it has been deleted.
UpdateRow(r) ==
  /\ req[r].at \in {"update", "updateOld"}
  /\ IF req[r].row \in Live
     THEN /\ rows' = [rows EXCEPT ![req[r].row].like = mix.model[req[r].of]]
          /\ IF req[r].at = "update" THEN Stand(r, "orphans") ELSE Free(r)
     ELSE Free(r) /\ UNCHANGED rows
  /\ UNCHANGED <<credentials, app, session, news, mix>>

\* deleteMatchingLegacyUserDeviceOrphans(): rows without a deviceId that look like it.
DropOrphans(r) ==
  /\ req[r].at = "orphans"
  /\ rows' = [i \in Rows |-> IF /\ i \in Legacy
                                /\ rows[i].like = mix.model[req[r].of] THEN Gone ELSE rows[i]]
  /\ Free(r)
  /\ UNCHANGED <<credentials, app, session, news, mix>>

FindLegacy(r) ==
  /\ req[r].at = "legacy"
  /\ LET found == {i \in Legacy : rows[i].like = mix.model[req[r].of]}
     IN IF found = {} THEN Stand(r, "create")
        ELSE \E i \in found : req' = [req EXCEPT ![r] = [req[r] EXCEPT !.at = "merge", !.row = i]]
  /\ UNCHANGED <<credentials, devices, mix>>

\* The legacy row becomes the phone's, by its id; no two rows hold one deviceId.
Merge(r) ==
  /\ req[r].at = "merge"
  /\ LET p == req[r].of
         i == req[r].row
     IN rows' = IF i \in Live /\ RowOf(p) \subseteq {i}
                THEN [rows EXCEPT ![i] = [rows[i] EXCEPT !.dev = p, !.like = mix.model[p]]] ELSE rows
  /\ Free(r)
  /\ UNCHANGED <<credentials, app, session, news, mix>>

\* A new row takes the next id.
Create(r) ==
  /\ req[r].at \in {"create", "createOld"}
  /\ IF req[r].at = "create" /\ RowOf(req[r].of) # {} THEN UNCHANGED rows
     ELSE \E i \in NextRow :
            rows' = [rows EXCEPT ![i] = [dev |-> IF req[r].at = "create" THEN req[r].of ELSE NULL,
                                         like |-> mix.model[req[r].of], blocked |-> FALSE]]
  /\ Free(r)
  /\ UNCHANGED <<credentials, app, session, news, mix>>

-----------------------------------------------------------------------------
Told(I) == {rows[i].dev : i \in I} \ {NULL}

\* deactivateMobileDevice(), adminDeleteUserDevice(), deactivateOtherMobileDevices(),
\* adminBlockUserDevice() and adminUnblockUserDevice() find the row they are asked for.
AskRow(r) ==
  /\ \E i \in Live :
       \/ Enter(r, "remove", "delete", i)
       \/ Enter(r, "erase", "tell", i)
       \/ Enter(r, "others", "tell", i)
       \/ ~rows[i].blocked /\ Enter(r, "block", "mark", i)
       \/ rows[i].blocked /\ Enter(r, "unblock", "mark", i)
  /\ UNCHANGED <<credentials, devices, mix>>

\* An administrator's removal is announced first, and that of all other rows is too,
\* to those that are there by then.
TellRows(r) ==
  /\ req[r].at = "tell"
  /\ LET i == req[r].of
     IN IF req[r].kind = "erase"
        THEN /\ news' = news \cup Told({i} \cap Live)
             /\ Stand(r, "delete")
        ELSE /\ news' = news \cup Told(Live \ {i})
             /\ IF Live \subseteq {i} THEN Free(r) ELSE Stand(r, "delete")
  /\ UNCHANGED <<credentials, rows, app, session, mix>>

\* Only a user's removal of one device is announced afterwards.
DeleteRows(r) ==
  /\ req[r].at = "delete"
  /\ LET gone == IF req[r].kind = "others" THEN Live \ {req[r].of} ELSE Live \cap {req[r].of}
     IN /\ rows' = [i \in Rows |-> IF i \in gone THEN Gone ELSE rows[i]]
        /\ news' = IF req[r].kind = "remove" THEN news \cup Told(gone) ELSE news
  /\ Free(r)
  /\ UNCHANGED <<credentials, app, session, mix>>

MarkRow(r) ==
  /\ req[r].at = "mark"
  /\ LET i == req[r].of
     IN IF i \notin Live THEN UNCHANGED <<rows, news>>
        ELSE /\ rows' = [rows EXCEPT ![i].blocked = (req[r].kind = "block")]
             /\ news' = IF req[r].kind = "block" THEN news \cup Told({i}) ELSE news
  /\ Free(r)
  /\ UNCHANGED <<credentials, app, session, mix>>

\* The event reaches the phone, late or never.
Hear(p) ==
  /\ p \in news
  /\ news' = news \ {p}
  /\ session' = [session EXCEPT ![p] = "out"]
  /\ UNCHANGED <<credentials, rows, app, req, mix>>

Miss(p) ==
  /\ p \in news
  /\ news' = news \ {p}
  /\ UNCHANGED <<credentials, rows, app, session, req, mix>>

-----------------------------------------------------------------------------
Init ==
  /\ mix \in Mixes
  /\ user = mix.user
  /\ known = {First}
  /\ stuck = {}
  /\ links = [r \in Reqs |-> "none"]
  /\ codes = [r \in Reqs |-> "none"]
  /\ rows = [i \in Rows |-> NULL]
  /\ app = mix.app
  /\ session = [p \in Phones |-> "out"]
  /\ news = {}
  /\ req = [r \in Slots |-> Idle]

\* What a request does once it has begun.
Serve(r) ==
  \/ CheckAccess(r)
  \/ WritePassword(r)
  \/ MailPassword(r)
  \/ FailPassword(r)
  \/ Rollback(r)
  \/ Activate(r)
  \/ ClearLinks(r)
  \/ MakeLink(r)
  \/ MakeCode(r)
  \/ Send(r)
  \/ ResetPassword(r)
  \/ SpendCode(r)
  \/ FindRow(r)
  \/ UpdateRow(r)
  \/ DropOrphans(r)
  \/ FindLegacy(r)
  \/ Merge(r)
  \/ Create(r)
  \/ TellRows(r)
  \/ DeleteRows(r)
  \/ MarkRow(r)

Ask(r) ==
  \/ EmailLogin(r)
  \/ AskPassword(r)
  \/ SetStatus(r)
  \/ SetDriver(r)
  \/ Forgot(r)
  \/ Login(r)
  \/ Present(r)
  \/ AskRow(r)

Next ==
  \/ \E r \in Slots : Serve(r)
  \/ \E r \in Reqs : Ask(r)
  \/ \E r \in Reqs : Expire(r)
  \/ \E r \in Reqs, p \in Phones : Register(r, p)
  \/ \E p \in Phones : SignIn(p)
  \/ \E p \in Phones : Upgrade(p)
  \/ \E p \in Phones : Sync(p)
  \/ \E p \in Phones : Hear(p)
  \/ \E p \in Phones : Miss(p)

\* The server works off what it has begun, and a signed-in app comes to the
\* foreground again and again.
Fairness ==
  /\ \A r \in Slots : WF_vars(Serve(r))
  /\ \A p \in Phones : WF_vars(Sync(p))

Spec == Init /\ [][Next]_vars /\ Fairness

-----------------------------------------------------------------------------
\* The state is well formed; the schema keeps one row for each deviceId.
TypeOK ==
  /\ user \in Account
  /\ known \subseteq Passwords /\ stuck \subseteq Reqs
  /\ links \in [Reqs -> {"none", "fresh", "used", "expired", "deleted"}]
  /\ codes \in [Reqs -> {"none", "fresh", "used", "expired"}]
  /\ rows \in [Rows -> Row \cup {NULL, Gone}]
  /\ \A p \in Phones : \A i, j \in RowOf(p) : i = j
  /\ app \in [Phones -> {"old", "new"}] /\ session \in [Phones -> {"in", "out"}]
  /\ news \subseteq Phones
  /\ req \in [Slots -> Request]

Resting == \A r \in Slots : req[r].at \in {"idle", "done"}
Overlap(q, r) == q # r /\ q \notin req[r].before /\ r \notin req[q].before
\* Login q has put back password x, which it had read; request r has activated the account.
Restores(q, x) == req[q].kind = "email" /\ req[q].out = "failed" /\ q \notin stuck /\ req[q].read.password = x
Activates(r) ==
  req[r].out = "ok" /\ (req[r].kind = "google" \/ (req[r].kind = "email" /\ req[r].read.status # "ACTIVE"))

\* When no request runs, the password is one that the owner knows and that a
\* request which succeeded has written; else its mail failed and it could not be
\* taken back, or an overlapping login has put it back.
PasswordKnown ==
  \A r \in Reqs : Resting /\ user.password = r =>
    \/ r \in known /\ (req[r].kind = "reset" => req[r].out = "ok")
    \/ r \in stuck
    \/ \E q \in Reqs : Restores(q, r) /\ Overlap(q, r)

\* And an account that was activated has a password, unless a login that overlapped
\* the one that activated it has put back that there was none.
ActiveHasPassword ==
  Resting /\ user.status = "ACTIVE" /\ user.password = NULL =>
    \/ mix.user = user
    \/ \E r \in Reqs : req[r].kind = "status"
    \/ \E q, r \in Reqs : Restores(q, NULL) /\ Overlap(q, r) /\ Activates(r)

\* loginWithEmail() with what runs beside it: nobody is left with a password that
\* was never sent, or activated with none.
CredentialsAgree == PasswordKnown /\ ActiveHasPassword

Served(r) == req[r].kind \in {"verify", "reset"} /\ req[r].out = "ok"

\* verifyOtp() and resetPassword() check, then mark: what served a request serves
\* none that begins after it, nor does a code that manual credentials replaced;
\* and of two links that work at once neither was made before the other was asked for.
ProofsServeOnce ==
  /\ \A r \in Reqs : Served(r) =>
       \A q \in req[r].before : ~(Served(q) /\ req[q].of = req[r].of)
  /\ \A r \in Reqs : Served(r) /\ req[r].kind = "verify" =>
       \A d \in req[r].before : ~(req[d].kind = "driver" /\ req[r].of \in req[d].before)
  /\ \A q, r \in Reqs : links[q] = "fresh" /\ links[r] = "fresh" => q \notin req[r].before

\* Request r ends, and was to remove row i, to unblock it, or to give it to a phone.
Removes(r, i) == req[r].at = "delete" /\ (req[r].of = i <=> req[r].kind # "others") /\ req'[r] = Idle
Unblocks(r, i) == req[r].at = "mark" /\ req[r].kind = "unblock" /\ req[r].of = i /\ req'[r] = Idle
Merges(r, i) == req[r].at = "merge" /\ req[r].row = i /\ req'[r] = Idle

\* Registrations and syncs of other phones leave a phone's row and its block alone:
\* the row goes, and the block is lifted, only by a request to do so, and the row
\* changes hands only by a registration that found it before it had an owner.
RowsKept ==
  [][\A i \in Live : rows[i].dev # NULL =>
       /\ rows'[i] = Gone => \E r \in Reqs : Removes(r, i)
       /\ rows'[i] # Gone /\ rows'[i].dev # rows[i].dev => \E r \in Reqs : Merges(r, i)
       /\ rows'[i] # Gone /\ rows[i].blocked /\ ~rows'[i].blocked => \E r \in Reqs : Unblocks(r, i)]_vars

\* A phone that is signed in and sends its deviceId is thrown out when its row is
\* removed or blocked, even if the event was missed or its registration lost the row.
ThrownOut ==
  \A p \in Phones :
    (p \in mix.syncs /\ session[p] = "in" /\ app[p] = "new" /\ Unwelcome(p)) ~> (session[p] = "out" \/ ~Unwelcome(p))

\* What is stored keeps its shape, and the password is one that the owner has been given.
CredentialsSound == TypeOK /\ CredentialsAgree

\* No device goes but for the named reasons, and one that is removed is signed out in the end.
DevicesRight == RowsKept /\ ThrownOut

=============================================================================
