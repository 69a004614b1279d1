---------------------------- MODULE AccountsProofs ----------------------------
(***************************************************************************)
(* Proofs about Accounts: that no account is left with a password nobody   *)
(* knows, that a code or link serves once, and that a phone's row goes,    *)
(* changes hands or is unblocked only by a request to do so.               *)
(***************************************************************************)
EXTENDS Accounts, TLAPS

-----------------------------------------------------------------------------
(* The invariant.                                                          *)

OfPhone == {"find", "findOld", "update", "updateOld", "orphans", "legacy", "merge", "create", "createOld"}
OfRow == {"tell", "delete", "mark"}

\* The stages that a request of kind k passes through.
Passes(k, a) ==
  \/ k = "email" /\ a \in {"access", "write", "mail", "activate", "rollback", "done"}
  \/ k \in {"google", "mobile", "change"} /\ a \in {"write", "mail", "done"}
  \/ k \in {"status", "driver"} /\ a = "done"
  \/ k = "forgot" /\ a \in {"clear", "link", "send", "done"}
  \/ k = "login" /\ a \in {"code", "send", "done"}
  \/ k = "reset" /\ a \in {"set", "done"}
  \/ k = "verify" /\ a \in {"spend", "done"}
  \/ k = "register" /\ a \in OfPhone
  \/ k = "sync" /\ a \in {"find", "findOld", "update", "updateOld", "orphans"}
  \/ k = "remove" /\ a = "delete"
  \/ k \in {"erase", "others"} /\ a \in {"tell", "delete"}
  \/ k \in {"block", "unblock"} /\ a = "mark"
Staged(s) == s = Idle \/ Passes(s.kind, s.at)

\* What a request is about, by its stage.
About(s) ==
  /\ s # Idle => s.read \in Account
  /\ s.at \in OfPhone => s.of \in Phones
  /\ s.at \in {"update", "updateOld", "merge"} => s.row \in Rows
  /\ s.at \in OfRow => s.of \in Rows
  /\ s.at = "activate" => s.read.status # "ACTIVE"
  /\ s.at # "done" => s.out = NULL

Requests ==
  /\ req \in [Slots -> Request]
  /\ \A r \in Slots : /\ Staged(req[r]) /\ About(req[r])
                      /\ r \in Phones => req[r].kind \in {"sync", NULL}
                      /\ r \notin req[r].before /\ \A q \in req[r].before : req[q].at = "done"

Steady == TypeOK /\ mix \in Mixes /\ Requests

\* The owner knows password s, or its mail failed for good, or an overlapping login has put it back.
Accounted(s) ==
  \/ s \in known
  \/ s \in stuck
  \/ \E q \in Reqs : Restores(q, s) /\ Overlap(q, s)

\* A login that overlapped request a has put back that there was no password.
Emptied(a) == \E q \in Reqs : Restores(q, NULL) /\ Overlap(q, a)

\* Request a has written the password that goes with the activation, and goes on to activate or has.
Activated(a) == Activates(a) \/ (req[a].kind = "google" /\ req[a].at = "mail")
Wrote(a) ==
  \/ Activated(a)
  \/ req[a].kind = "email" /\ req[a].at \in {"mail", "activate"} /\ req[a].read.status # "ACTIVE"

\* What is known, stuck or written comes from a request about credentials.
Origins ==
  /\ \A r \in known \cap Reqs : /\ req[r].kind \in Credential
                                /\ req[r].kind = "reset" => req[r].at = "done" /\ req[r].out = "ok"
  /\ \A r \in stuck : req[r].at = "done"
  /\ \A r \in Reqs : req[r].kind = "change" /\ req[r].at = "mail" => r \in known
  /\ \A r \in Reqs : user.password = r => req[r].kind \in Credential

\* The password that is, and the one that a login would put back.
HeldNow == \A s \in Reqs : user.password = s => Accounted(s) \/ req[s].at \in {"mail", "rollback"}
HeldRead ==
  \A q \in Slots, s \in Reqs :
    req[q] # Idle /\ req[q].read.password = s =>
      /\ s # q /\ req[s].kind \in Credential
      /\ s \in req[q].before => Accounted(s)

\* The same of an account without password.
EmptyNow == \A a \in Reqs : user.password = NULL /\ Wrote(a) => Emptied(a)
EmptyRead ==
  \A q \in Slots, a \in Reqs :
    req[q] # Idle /\ req[q].read.password = NULL /\ a \in req[q].before /\ Activates(a) => Emptied(a)

\* An account that has had a password keeps one, and who activated an account is a request.
FirstPassword ==
  mix.user.password # NULL =>
    user.password # NULL /\ \A q \in Slots : req[q] # Idle => req[q].read.password # NULL
ActiveBy ==
  user.status = "ACTIVE" => mix.user.status = "ACTIVE" \/ \E r \in Reqs : req[r].kind = "status" \/ Activated(r)

\* Codes and links are those of requests that made them, and are looked up when they were sent.
Made ==
  /\ \A q \in Reqs : links[q] # "none" => req[q].kind = "forgot" /\ req[q].at \in {"send", "done"}
  /\ \A q \in Reqs : codes[q] # "none" => \/ req[q].kind = "login" /\ req[q].at \in {"send", "done"}
                                          \/ req[q].kind = "driver"
  /\ \A r \in Reqs : req[r].kind = "reset" =>
       req[r].of \in Reqs /\ req[req[r].of].kind = "forgot" /\ req[req[r].of].at = "done"
  /\ \A r \in Reqs : req[r].kind = "verify" =>
       req[r].of \in Reqs /\ req[req[r].of].kind \in {"login", "driver"} /\ req[req[r].of].at = "done"

\* What has served, what manual credentials have replaced and what a later link has cleared is no
\* longer good, and nobody goes on with it who came later.
Spent ==
  /\ \A q \in Reqs : Served(q) => IF req[q].kind = "verify" THEN codes[req[q].of] # "fresh"
                                                            ELSE links[req[q].of] # "fresh"
  /\ \A d, x \in Reqs : req[d].kind = "driver" /\ x \in req[d].before => codes[x] # "fresh"
  /\ \A r, q \in Reqs : /\ req[r].kind = "forgot" /\ req[r].at \in {"link", "send", "done"} /\ q \in req[r].before
                        => links[q] # "fresh"
  /\ \A r \in Reqs : req[r].kind \in {"verify", "reset"} /\ (req[r].at \in {"spend", "set"} \/ req[r].out = "ok") =>
       /\ \A q \in req[r].before : ~(Served(q) /\ req[q].of = req[r].of)
       /\ req[r].kind = "verify" =>
            \A d \in req[r].before : ~(req[d].kind = "driver" /\ req[r].of \in req[d].before)

CredentialsInv == Origins /\ HeldNow /\ HeldRead /\ EmptyNow /\ EmptyRead /\ FirstPassword /\ ActiveBy
ProofsInv == Made /\ Spent

-----------------------------------------------------------------------------
(* How requests move.                                                      *)

\* Request r goes on to stage a, with outcome o.
Goes(r, a, o) ==
  /\ \A q \in Slots \ {r} : req'[q] = req[q]
  /\ req'[r].kind = req[r].kind /\ req'[r].at = a /\ req'[r].read = req[r].read /\ req'[r].of = req[r].of
  /\ req'[r].row = req[r].row /\ req'[r].before = req[r].before /\ req'[r].out = o

\* Slot r is taken by a request of kind k about x.
Begins(r, k, a, x) ==
  /\ req[r] = Idle /\ \A q \in Slots \ {r} : req'[q] = req[q]
  /\ req'[r].kind = k /\ req'[r].at = a /\ req'[r].read = user /\ req'[r].of = x /\ req'[r].row = NULL
  /\ req'[r].before = {q \in Reqs : req[q].at = "done"} /\ req'[r].out = NULL

\* Slot r is given back.
Leaves(r) == req'[r] = Idle /\ \A q \in Slots \ {r} : req'[q] = req[q]

\* A request has the fields of Request.
LEMMA Fields ==
  ASSUME req \in [Slots -> Request], NEW r \in Slots
  PROVE  /\ req[r] \in Request /\ DOMAIN req = Slots
         /\ req[r] = [kind |-> req[r].kind, at |-> req[r].at, read |-> req[r].read, of |-> req[r].of,
                      row |-> req[r].row, before |-> req[r].before, out |-> req[r].out]
BY DEF Request

\* Stand, End, Free and Enter are such moves: one goes on to another stage.
LEMMA StandGoes ==
  ASSUME req \in [Slots -> Request], NEW r \in Slots, NEW a, Stand(r, a)
  PROVE  Goes(r, a, req[r].out)
BY Fields DEF Stand, Goes

\* The slot stays with a request that ends.
LEMMA EndGoes ==
  ASSUME req \in [Slots -> Request], NEW r \in Slots, NEW o, End(r, o)
  PROVE  Goes(r, "done", o)
BY Fields DEF End, Goes

\* The slot of a request about devices is given back.
LEMMA FreeLeaves ==
  ASSUME req \in [Slots -> Request], NEW r \in Slots, Free(r)
  PROVE  Leaves(r)
BY Fields DEF Free, Leaves

\* A request takes a slot that was idle.
LEMMA EnterBegins ==
  ASSUME req \in [Slots -> Request], NEW r \in Slots, NEW k, NEW a, NEW x, Enter(r, k, a, x)
  PROVE  Begins(r, k, a, x)
BY Fields DEF Enter, Begins, Idle

\* A request that goes on has the type of one.
LEMMA StandTypes ==
  ASSUME req \in [Slots -> Request], NEW r \in Slots, NEW a \in Stages, Stand(r, a)
  PROVE  req' \in [Slots -> Request]
<1>1. [req[r] EXCEPT !.at = a] \in Request  BY Fields DEF Request
<1>2. req' = [req EXCEPT ![r] = [req[r] EXCEPT !.at = a]]  BY DEF Stand
<1> QED  BY <1>1, <1>2

\* So has one that ends.
LEMMA EndTypes ==
  ASSUME req \in [Slots -> Request], NEW r \in Slots, NEW o \in Outcomes, End(r, o)
  PROVE  req' \in [Slots -> Request]
<1>1. PICK s \in Request : s = req[r]  BY Fields
<1>2. [s EXCEPT !.at = "done", !.out = o] \in Request
  <2>1. [s EXCEPT !.at = "done"] \in Request  BY DEF Request, Stages
  <2>2. [[s EXCEPT !.at = "done"] EXCEPT !.out = o] \in Request  BY <2>1 DEF Request
  <2>3. [[s EXCEPT !.at = "done"] EXCEPT !.out = o] = [s EXCEPT !.at = "done", !.out = o]  BY DEF Request
  <2> QED  BY <2>2, <2>3
<1>3. req' = [req EXCEPT ![r] = [s EXCEPT !.at = "done", !.out = o]]  BY <1>1 DEF End
<1> QED  BY <1>2, <1>3

\* And one that gives its slot back.
LEMMA FreeTypes ==
  ASSUME req \in [Slots -> Request], NEW r \in Slots, Free(r)
  PROVE  req' \in [Slots -> Request]
<1>1. Idle \in Request  BY DEF Idle, Request, Stages
<1> QED  BY <1>1 DEF Free

\* And one that begins, with what it read of the account.
LEMMA EnterTypes ==
  ASSUME Steady, NEW r \in Slots, NEW k \in Credential \cup OfDevices, NEW a \in Stages,
         NEW x \in Slots \cup Rows \cup {NULL}, Enter(r, k, a, x)
  PROVE  req' \in [Slots -> Request]
<1> DEFINE b == {q \in Reqs : req[q].at = "done"}
          n == [kind |-> k, at |-> a, read |-> user, of |-> x, row |-> NULL, before |-> b, out |-> NULL]
<1>1. req \in [Slots -> Request] /\ user \in Account  BY DEF Steady, TypeOK
<1>2. n \in Request  BY <1>1 DEF Request
<1>3. req' = [req EXCEPT ![r] = n]  BY DEF Enter
<1> HIDE DEF n
<1> QED  BY <1>1, <1>2, <1>3

-----------------------------------------------------------------------------
(* Requests keep their shape, and what they are about.                     *)

\* Every slot stands still, is taken, goes on with what it was asked, or is given back by a request
\* about devices.
Taken(q) ==
  /\ req[q] = Idle /\ req'[q].read = user /\ req'[q].out = NULL
  /\ req'[q].before = {x \in Reqs : req[x].at = "done"}
  /\ req'[q].at \notin {"mail", "activate", "rollback", "link", "send"}
Onward(q) ==
  /\ req[q].at \notin {"idle", "done"}
  /\ req'[q].kind = req[q].kind /\ req'[q].read = req[q].read /\ req'[q].of = req[q].of
  /\ req'[q].before = req[q].before
  /\ req[q].at = "send" => req'[q].at = "done"
Flow == \A q \in Slots : \/ req'[q] = req[q] \/ Taken(q) \/ Onward(q)
                         \/ (req[q].kind \notin Credential /\ req'[q] = Idle)

\* Who is idle, and who is done.
LEMMA Standing ==
  ASSUME Requests, NEW r \in Slots
  PROVE  /\ req[r].at = "idle" <=> req[r] = Idle
         /\ req[r].at = "done" => req[r].kind \in Credential /\ req[r].out \in {"ok", "failed", "refused", NULL}
         /\ req[r].kind \in Credential /\ r \in Slots => r \in Reqs
         /\ req[r].before \subseteq Reqs
         /\ \A q \in req[r].before : req[q].at = "done" /\ q # r /\ req[q].kind \in Credential
<1>1. Staged(req[r]) /\ req[r] \in Request /\ r \notin req[r].before /\ \A q \in req[r].before : req[q].at = "done"
  BY DEF Requests
<1>2. Idle.at = "idle" /\ Idle.kind = NULL /\ Idle.before = {}  BY DEF Idle
<1>3. req[r].at = "idle" <=> req[r] = Idle  BY <1>1, <1>2 DEF Staged, Passes, OfPhone, OfRow
<1>4. req[r].at = "done" => req[r].kind \in Credential
  BY <1>1, <1>2 DEF Staged, Passes, OfPhone, OfRow, Credential
<1>5. req[r].before \subseteq Reqs /\ req[r].out \in {"ok", "failed", "refused", NULL}  BY <1>1 DEF Request, Outcomes
<1>6. req[r].kind \in Credential => r \in Reqs
  <2>1. NULL \notin Credential /\ "sync" \notin Credential  BY NullAssumption DEF Credential
  <2> QED  BY <2>1 DEF Requests, Slots
<1>7. ASSUME NEW q \in req[r].before  PROVE q # r /\ req[q].kind \in Credential
  <2>1. q \in Slots /\ req[q].at = "done"  BY <1>1, <1>5, <1>7 DEF Slots
  <2>2. Staged(req[q])  BY <2>1 DEF Requests
  <2>3. req[q].kind \in Credential  BY <1>2, <2>1, <2>2 DEF Staged, Passes, OfPhone, OfRow, Credential
  <2> QED  BY <1>1, <2>1, <2>3
<1> QED  BY <1>1, <1>3, <1>4, <1>5, <1>6, <1>7

\* A request that goes on, or ends.
LEMMA Moving ==
  ASSUME Requests, NEW r \in Slots, NEW a, NEW o, Goes(r, a, o), req' \in [Slots -> Request],
         req[r].at \notin {"idle", "done"}, Staged(req'[r]), About(req'[r]), req[r].at = "send" => a = "done"
  PROVE  Requests' /\ Flow
<1>1. Flow  BY DEF Goes, Flow, Onward
<1>2. ASSUME NEW s \in Slots
      PROVE  /\ Staged(req'[s]) /\ About(req'[s])
             /\ s \in Phones => req'[s].kind \in {"sync", NULL}
             /\ s \notin req'[s].before /\ \A q \in req'[s].before : req'[q].at = "done"
  <2>1. req'[s].kind = req[s].kind /\ req'[s].before = req[s].before  BY DEF Goes
  <2>2. Staged(req'[s]) /\ About(req'[s])  BY DEF Goes, Requests
  <2>3. ASSUME NEW q \in req[s].before  PROVE req'[q].at = "done"
    <3>1. q \in Slots /\ req[q].at = "done"  BY <2>3, Standing DEF Slots
    <3> QED  BY <3>1 DEF Goes
  <2> QED  BY <2>1, <2>2, <2>3 DEF Requests
<1>3. Requests'  BY <1>2 DEF Requests, Staged, About, Passes
<1> QED  BY <1>1, <1>3

\* A request that begins.
LEMMA Beginning ==
  ASSUME Requests, NEW r \in Slots, NEW k, NEW a, NEW x, Begins(r, k, a, x), req' \in [Slots -> Request],
         Staged(req'[r]), About(req'[r]), r \in Phones => k = "sync",
         a \notin {"mail", "activate", "rollback", "link", "send"}
  PROVE  Requests' /\ Flow
<1>1. Flow  BY DEF Begins, Flow, Taken
<1>2. ASSUME NEW s \in Slots
      PROVE  /\ Staged(req'[s]) /\ About(req'[s])
             /\ s \in Phones => req'[s].kind \in {"sync", NULL}
             /\ s \notin req'[s].before /\ \A q \in req'[s].before : req'[q].at = "done"
  <2>1. req[r].at # "done"  BY DEF Begins, Idle
  <2>2. CASE s = r  BY <2>1, <2>2 DEF Begins, Slots
  <2>3. CASE s # r
    <3>1. req'[s] = req[s]  BY <2>3 DEF Begins
    <3>2. ASSUME NEW q \in req[s].before  PROVE req'[q].at = "done"
      <4>1. q \in Slots /\ req[q].at = "done"  BY <3>2, Standing DEF Slots
      <4> QED  BY <2>1, <4>1 DEF Begins
    <3> QED  BY <3>1, <3>2 DEF Requests
  <2> QED  BY <2>2, <2>3
<1>3. Requests'  BY <1>2 DEF Requests, Staged, About, Passes
<1> QED  BY <1>1, <1>3

\* A request about devices that gives its slot back.
LEMMA Leaving ==
  ASSUME Requests, NEW r \in Slots, Leaves(r), req' \in [Slots -> Request], req[r].kind \notin Credential
  PROVE  Requests' /\ Flow
<1>1. Flow  BY DEF Leaves, Flow
<1>2. ASSUME NEW s \in Slots
      PROVE  /\ Staged(req'[s]) /\ About(req'[s])
             /\ s \in Phones => req'[s].kind \in {"sync", NULL}
             /\ s \notin req'[s].before /\ \A q \in req'[s].before : req'[q].at = "done"
  <2>1. req[r].at # "done"  BY Standing
  <2>2. CASE s = r
    <3>1. req'[s] = Idle  BY <2>2 DEF Leaves
    <3> QED  BY <3>1 DEF Idle, Staged, Passes, About, OfPhone, OfRow
  <2>3. CASE s # r
    <3>1. req'[s] = req[s]  BY <2>3 DEF Leaves
    <3>2. ASSUME NEW q \in req[s].before  PROVE req'[q].at = "done"
      <4>1. q \in Slots /\ req[q].at = "done"  BY <3>2, Standing DEF Slots
      <4> QED  BY <2>1, <4>1 DEF Leaves
    <3> QED  BY <3>1, <3>2 DEF Requests
  <2> QED  BY <2>2, <2>3
<1>3. Requests'  BY <1>2 DEF Requests, Staged, About, Passes
<1> QED  BY <1>1, <1>3

\* A step of no request.
LEMMA Waiting ==
  ASSUME Requests, UNCHANGED req
  PROVE  Requests' /\ Flow
BY DEF Requests, Flow, Staged, About, Passes

\* A request that is accepted.
LEMMA Accepted ==
  ASSUME Steady, NEW r \in Slots, NEW k \in Credential \cup OfDevices, NEW a \in Stages,
         NEW x \in Slots \cup Rows \cup {NULL}, Enter(r, k, a, x),
         Passes(k, a), r \in Phones => k = "sync", a \in OfPhone => x \in Phones, a \in OfRow => x \in Rows,
         a \notin {"mail", "activate", "rollback", "link", "send", "update", "updateOld", "merge"}
  PROVE  Requests' /\ Flow /\ Begins(r, k, a, x)
<1>1. Requests /\ user \in Account /\ req \in [Slots -> Request]  BY DEF Steady, TypeOK
<1>2. Begins(r, k, a, x) /\ req' \in [Slots -> Request]  BY <1>1, EnterBegins, EnterTypes
<1>3. Staged(req'[r])  BY <1>2 DEF Staged, Begins
<1>4. About(req'[r])  BY <1>1, <1>2 DEF About, Begins
<1> QED  BY <1>1, <1>2, <1>3, <1>4, Beginning

\* A request that goes on, to a stage it passes through.
LEMMA GoesOn ==
  ASSUME Steady, NEW r \in Slots, NEW a \in Stages, Stand(r, a),
         req[r].at \notin {"idle", "done", "send"}, Passes(req[r].kind, a),
         a \in OfPhone => req[r].of \in Phones, a \in OfRow => req[r].of \in Rows,
         a = "activate" => req[r].read.status # "ACTIVE",
         a \notin {"update", "updateOld", "merge", "done"}
  PROVE  Requests' /\ Flow /\ Goes(r, a, NULL)
<1>1. Requests /\ req \in [Slots -> Request]  BY DEF Steady, TypeOK
<1>2. Goes(r, a, req[r].out) /\ req' \in [Slots -> Request]  BY <1>1, StandGoes, StandTypes
<1>3. req[r].out = NULL /\ req[r].read \in Account  BY <1>1, Standing DEF Requests, About
<1>4. Staged(req'[r])  BY <1>2 DEF Staged, Goes
<1>5. About(req'[r])  BY <1>2, <1>3 DEF About, Goes
<1> QED  BY <1>1, <1>2, <1>3, <1>4, <1>5, Moving

\* A request that ends.
LEMMA GoesOut ==
  ASSUME Steady, NEW r \in Slots, NEW o \in Outcomes, End(r, o),
         req[r].at \notin {"idle", "done"}, Passes(req[r].kind, "done")
  PROVE  Requests' /\ Flow /\ Goes(r, "done", o)
<1>1. Requests /\ req \in [Slots -> Request]  BY DEF Steady, TypeOK
<1>2. Goes(r, "done", o) /\ req' \in [Slots -> Request]  BY <1>1, EndGoes, EndTypes
<1>3. req[r].read \in Account  BY <1>1, Standing DEF Requests, About
<1>4. Staged(req'[r])  BY <1>2 DEF Staged, Goes
<1>5. About(req'[r])  BY <1>2, <1>3 DEF About, Goes, OfPhone, OfRow
<1> QED  BY <1>1, <1>2, <1>4, <1>5, Moving

\* A request about devices that ends.
LEMMA GoesAway ==
  ASSUME Steady, NEW r \in Slots, Free(r), req[r].at \notin {"idle", "done"}, req[r].kind \notin Credential
  PROVE  Requests' /\ Flow /\ Leaves(r)
BY FreeLeaves, FreeTypes, Leaving DEF Steady, TypeOK

-----------------------------------------------------------------------------
(* Every action keeps the requests.                                        *)

\* Names of kinds, stages and outcomes.
LEMMA Names ==
  /\ Credential \subseteq Credential \cup OfDevices /\ Outcomes = {"ok", "failed", "refused"}
  /\ {"email", "google", "mobile", "change", "status", "driver", "forgot", "login", "reset", "verify"} = Credential
  /\ {"register", "sync", "remove", "erase", "others", "block", "unblock"} = OfDevices
  /\ {"access", "write", "mail", "activate", "rollback", "clear", "link", "code", "send", "set", "spend",
      "find", "findOld", "update", "updateOld", "orphans", "legacy", "merge", "create", "createOld",
      "tell", "delete", "mark", "done"} \subseteq Stages
BY DEF Credential, OfDevices, Outcomes, Stages

\* Requests are accepted.
LEMMA AskRequests ==
  ASSUME Steady, NEW r \in Reqs, Ask(r)
  PROVE  Requests' /\ Flow
<1>0. r \in Slots /\ r \notin Phones  BY SlotsAssumption DEF Slots
<1> DEFINE Fit(k, a, x) ==
             /\ k \in Credential \cup OfDevices /\ a \in Stages /\ x \in Slots \cup Rows \cup {NULL} /\ Passes(k, a)
             /\ a \in OfPhone => x \in Phones
             /\ a \in OfRow => x \in Rows
             /\ a \notin {"mail", "activate", "rollback", "link", "send", "update", "updateOld", "merge"}
<1>1. ASSUME NEW k, NEW a, NEW x, Enter(r, k, a, x), Fit(k, a, x)  PROVE Requests' /\ Flow
  BY <1>0, <1>1, Accepted
<1>2. CASE EmailLogin(r)
  <2>1. PICK p \in mix.from : Enter(r, "email", IF p # NULL THEN "access" ELSE IF Settled(user) THEN "done" ELSE "write", p)
    BY <1>2 DEF EmailLogin
  <2>2. p \in Phones \cup {NULL}  BY MixesAssumption DEF Steady
  <2>3. \A a \in {"access", "done", "write"} : Fit("email", a, p)
    BY <2>2, Names DEF Passes, OfPhone, OfRow, Slots
  <2> QED  BY <1>1, <2>1, <2>3
<1>3. CASE AskPassword(r)
  <2>1. \A k \in {"google", "mobile", "change"}, a \in {"write", "done"} : Fit(k, a, NULL)
    BY Names DEF Passes, OfPhone, OfRow
  <2> QED  BY <1>1, <1>3, <2>1 DEF AskPassword
<1>4. CASE SetStatus(r) \/ SetDriver(r)
  <2>1. \A k \in {"status", "driver"} : Fit(k, "done", NULL)  BY Names DEF Passes, OfPhone, OfRow
  <2>2. \E k \in {"status", "driver"} : Enter(r, k, "done", NULL)  BY <1>4 DEF SetStatus, SetDriver
  <2> QED  BY <1>1, <2>1, <2>2
<1>5. CASE Forgot(r)
  <2>1. Fit("forgot", "clear", NULL)  BY Names DEF Passes, OfPhone, OfRow
  <2> QED  BY <1>1, <1>5, <2>1 DEF Forgot
<1>6. CASE Login(r)
  <2>1. \A a \in {"code", "done"} : Fit("login", a, NULL)  BY Names DEF Passes, OfPhone, OfRow
  <2> QED  BY <1>1, <1>6, <2>1 DEF Login
<1>7. CASE Present(r)
  <2>1. \A q \in Reqs, a \in {"set", "done"} : Fit("reset", a, q)  BY Names DEF Passes, OfPhone, OfRow, Slots
  <2>2. \A q \in Reqs, a \in {"spend", "done"} : Fit("verify", a, q)  BY Names DEF Passes, OfPhone, OfRow, Slots
  <2>3. \E q \in Reqs : \/ \E a \in {"set", "done"} : Enter(r, "reset", a, q)
                        \/ \E a \in {"spend", "done"} : Enter(r, "verify", a, q)
    BY <1>7 DEF Present
  <2> QED  BY <1>1, <2>1, <2>2, <2>3
<1>8. CASE AskRow(r)
  <2>1. \A i \in Rows : /\ Fit("remove", "delete", i) /\ Fit("erase", "tell", i) /\ Fit("others", "tell", i)
                        /\ Fit("block", "mark", i) /\ Fit("unblock", "mark", i)
    BY Names DEF Passes, OfPhone, OfRow
  <2>2. \E i \in Rows : \/ Enter(r, "remove", "delete", i) \/ Enter(r, "erase", "tell", i)
                        \/ Enter(r, "others", "tell", i) \/ Enter(r, "block", "mark", i)
                        \/ Enter(r, "unblock", "mark", i)
    BY <1>8 DEF AskRow, Live
  <2> QED  BY <1>1, <2>1, <2>2
<1> QED  BY <1>2, <1>3, <1>4, <1>5, <1>6, <1>7, <1>8 DEF Ask

\* Requests about credentials go on.
LEMMA CredentialRequests ==
  ASSUME Steady, NEW r \in Slots,
         \/ CheckAccess(r) \/ WritePassword(r) \/ MailPassword(r) \/ FailPassword(r) \/ Rollback(r) \/ Activate(r)
         \/ ClearLinks(r) \/ MakeLink(r) \/ MakeCode(r) \/ Send(r) \/ ResetPassword(r) \/ SpendCode(r)
  PROVE  Requests' /\ Flow
<1>1. Staged(req[r]) /\ (req[r].at # "idle" <=> req[r] # Idle)  BY Standing DEF Steady, Requests
<1>2. ASSUME NEW a \in {"write", "mail", "activate", "rollback", "link", "send"}, Stand(r, a),
             req[r].at \notin {"idle", "done", "send"}, Passes(req[r].kind, a),
             a = "activate" => req[r].read.status # "ACTIVE"
      PROVE  Requests' /\ Flow
  <2>1. a \in Stages /\ a \notin OfPhone /\ a \notin OfRow  BY Names DEF OfPhone, OfRow
  <2> QED  BY <1>2, <2>1, GoesOn
<1>3. ASSUME NEW o \in {"ok", "failed", "refused"}, End(r, o), req[r].at \notin {"idle", "done"},
             Passes(req[r].kind, "done")
      PROVE  Requests' /\ Flow
  BY <1>3, GoesOut, Names
<1>4. CASE CheckAccess(r)
  <2>1. req[r].at = "access" /\ req[r].kind = "email"  BY <1>4 DEF CheckAccess, At
  <2> QED  BY <1>2, <1>3, <1>4, <2>1 DEF CheckAccess, Passes
<1>5. CASE WritePassword(r)
  <2>1. req[r].at = "write" /\ req[r].kind \in {"email", "google", "mobile", "change"} /\ Stand(r, "mail")
    BY <1>1, <1>5 DEF WritePassword, Staged, Passes, OfPhone
  <2> QED  BY <1>2, <2>1 DEF Passes
<1>6. CASE MailPassword(r) \/ FailPassword(r)
  <2>1. req[r].at = "mail" /\ req[r].kind \in {"email", "google", "mobile", "change"}
    BY <1>1, <1>6 DEF MailPassword, FailPassword, Staged, Passes, OfPhone
  <2>2. \/ req[r].kind = "email" /\ req[r].read.status # "ACTIVE" /\ Stand(r, "activate")
        \/ req[r].kind = "email" /\ Stand(r, "rollback")
        \/ \E o \in {"ok", "failed"} : End(r, o)
    BY <1>6, <2>1 DEF MailPassword, FailPassword
  <2> QED  BY <1>2, <1>3, <2>1, <2>2 DEF Passes
<1>7. CASE Rollback(r) \/ Activate(r)
  <2>1. req[r].at \in {"rollback", "activate"} /\ req[r].kind = "email" /\ \E o \in {"ok", "failed"} : End(r, o)
    BY <1>7 DEF Rollback, Activate, At
  <2> QED  BY <1>3, <2>1 DEF Passes
<1>8. CASE ClearLinks(r) \/ MakeLink(r)
  <2>1. /\ req[r].at \in {"clear", "link"} /\ req[r].kind = "forgot"
        /\ \E a \in {"link", "send"} : Stand(r, a)
    BY <1>8 DEF ClearLinks, MakeLink, At
  <2> QED  BY <1>2, <2>1 DEF Passes
<1>9. CASE MakeCode(r)
  <2>1. req[r].at = "code" /\ req[r].kind = "login" /\ Stand(r, "send")  BY <1>9 DEF MakeCode, At
  <2> QED  BY <1>2, <2>1 DEF Passes
<1>10. CASE Send(r)
  <2>1. req[r].at = "send" /\ req[r].kind \in {"forgot", "login"} /\ \E o \in {"ok", "failed"} : End(r, o)
    BY <1>1, <1>10 DEF Send, Staged, Passes, OfPhone
  <2> QED  BY <1>3, <2>1 DEF Passes
<1>11. CASE ResetPassword(r) \/ SpendCode(r)
  <2>1. /\ req[r].at \in {"set", "spend"} /\ req[r].kind \in {"reset", "verify"}
        /\ \E o \in {"ok", "failed"} : End(r, o)
    BY <1>11 DEF ResetPassword, SpendCode, At
  <2> QED  BY <1>3, <2>1 DEF Passes
<1> QED  BY <1>4, <1>5, <1>6, <1>7, <1>8, <1>9, <1>10, <1>11

\* A request goes on to a row it has found.
LEMMA GoesToRow ==
  ASSUME Steady, NEW r \in Slots, NEW a \in {"update", "updateOld", "merge"}, NEW i \in Rows,
         req' = [req EXCEPT ![r] = [req[r] EXCEPT !.at = a, !.row = i]],
         req[r].at \in OfPhone, Passes(req[r].kind, a)
  PROVE  Requests' /\ Flow
<1>1. Requests /\ req \in [Slots -> Request]  BY DEF Steady, TypeOK
<1>2. PICK s \in Request : s = req[r]  BY <1>1, Fields
<1>3. PICK t : t = [s EXCEPT !.at = a, !.row = i]  OBVIOUS
<1>4. /\ t.kind = s.kind /\ t.at = a /\ t.read = s.read /\ t.of = s.of
      /\ t.row = i /\ t.before = s.before /\ t.out = s.out
  BY <1>3 DEF Request
<1>5. t \in Request
  <2>1. [s EXCEPT !.at = a] \in Request  BY Names DEF Request
  <2>2. [[s EXCEPT !.at = a] EXCEPT !.row = i] \in Request  BY <2>1 DEF Request
  <2>3. [[s EXCEPT !.at = a] EXCEPT !.row = i] = [s EXCEPT !.at = a, !.row = i]  BY DEF Request
  <2> QED  BY <1>3, <2>2, <2>3
<1>6. req' = [req EXCEPT ![r] = t]  BY <1>2, <1>3
<1>7. req' \in [Slots -> Request] /\ req'[r] = t /\ \A q \in Slots \ {r} : req'[q] = req[q]  BY <1>1, <1>5, <1>6
<1>8. req[r].at \notin {"idle", "done", "send"} /\ req[r].out = NULL /\ req[r].of \in Phones /\ req[r].read \in Account
  <2>1. req[r].at \notin {"idle", "done", "send"}  BY DEF OfPhone
  <2> QED  BY <1>1, <2>1, Standing DEF Requests, About
<1>9. /\ req'[r].kind = req[r].kind /\ req'[r].at = a /\ req'[r].read = req[r].read /\ req'[r].of = req[r].of
      /\ req'[r].row = i /\ req'[r].before = req[r].before /\ req'[r].out = NULL
  BY <1>2, <1>4, <1>7, <1>8
<1>10. Flow  BY <1>7, <1>8, <1>9 DEF Flow, Onward
<1>11. ASSUME NEW x \in Slots
       PROVE  /\ Staged(req'[x]) /\ About(req'[x])
              /\ x \in Phones => req'[x].kind \in {"sync", NULL}
              /\ x \notin req'[x].before /\ \A q \in req'[x].before : req'[q].at = "done"
  <2>1. req'[x].kind = req[x].kind /\ req'[x].before = req[x].before  BY <1>7, <1>9
  <2>2. ASSUME NEW q \in req[x].before  PROVE req'[q].at = "done"
    <3>1. q \in Slots /\ req[q].at = "done"  BY <1>1, <2>2, Standing DEF Slots
    <3> QED  BY <1>7, <1>8, <3>1
  <2>3. Staged(req'[x]) /\ About(req'[x])
    <3>1. CASE x = r
      <4>1. Staged(req'[x])  BY <1>9, <3>1 DEF Staged
      <4>2. About(req'[x])  BY <1>8, <1>9, <3>1 DEF About, OfPhone, OfRow
      <4> QED  BY <4>1, <4>2
    <3>2. CASE x # r  BY <1>1, <1>7, <3>2 DEF Requests
    <3> QED  BY <3>1, <3>2
  <2> QED  BY <1>1, <2>1, <2>2, <2>3 DEF Requests
<1>12. Requests'  BY <1>7, <1>11 DEF Requests, Staged, About, Passes
<1> QED  BY <1>10, <1>12

\* Requests about devices go on.
LEMMA DeviceRequests ==
  ASSUME Steady, NEW r \in Slots,
         \/ FindRow(r) \/ UpdateRow(r) \/ DropOrphans(r) \/ FindLegacy(r) \/ Merge(r) \/ Create(r)
         \/ TellRows(r) \/ DeleteRows(r) \/ MarkRow(r)
  PROVE  Requests' /\ Flow
<1>1. /\ Staged(req[r]) /\ (req[r].at # "idle" <=> req[r] # Idle)
      /\ req[r].at \in OfPhone => req[r].of \in Phones
      /\ req[r].at \in OfRow => req[r].of \in Rows
  BY Standing DEF Steady, Requests, About
<1>2. ASSUME NEW a \in {"orphans", "legacy", "create", "createOld"}, req[r].at \in OfPhone,
             Passes(req[r].kind, a), Stand(r, a)
      PROVE  Requests' /\ Flow
  <2>1. a \in Stages /\ a \notin OfRow  BY Names DEF OfRow
  <2>2. req[r].at \notin {"idle", "done", "send"} /\ req[r].of \in Phones  BY <1>1, <1>2 DEF OfPhone
  <2> QED  BY <1>2, <2>1, <2>2, GoesOn
<1>3. ASSUME req[r].at \in OfRow, Passes(req[r].kind, "delete"), Stand(r, "delete")
       PROVE  Requests' /\ Flow
  <2>1. "delete" \in Stages /\ "delete" \notin OfPhone  BY Names DEF OfPhone
  <2>2. req[r].at \notin {"idle", "done", "send"} /\ req[r].of \in Rows  BY <1>1, <1>3 DEF OfRow
  <2> QED  BY <1>3, <2>1, <2>2, GoesOn
<1>4. ASSUME Free(r), req[r].at \in OfPhone \cup OfRow  PROVE Requests' /\ Flow
  <2>1. req[r].at \notin {"idle", "done"}  BY <1>4 DEF OfPhone, OfRow
  <2>2. req[r].kind \notin Credential
    <3>1. Passes(req[r].kind, req[r].at)  BY <1>1, <2>1 DEF Staged
    <3> QED  BY <1>4, <3>1 DEF Passes, OfPhone, OfRow, Credential
  <2> QED  BY <1>4, <2>1, <2>2, GoesAway
<1>5. ASSUME NEW a \in {"update", "updateOld", "merge"}, NEW i \in Rows,
             req' = [req EXCEPT ![r] = [req[r] EXCEPT !.at = a, !.row = i]],
             req[r].at \in OfPhone, Passes(req[r].kind, a)
      PROVE  Requests' /\ Flow
  BY <1>5, GoesToRow
<1>6. CASE FindRow(r)
  <2>1. req[r].at \in {"find", "findOld"} /\ req[r].at \in OfPhone /\ req[r].kind \in {"register", "sync"}
    BY <1>1, <1>6 DEF FindRow, Staged, Passes, OfPhone
  <2>2. \/ \E i \in Rows, a \in {"update", "updateOld"} : req' = [req EXCEPT ![r] = [req[r] EXCEPT !.at = a, !.row = i]]
        \/ Free(r)
        \/ req[r].kind = "register" /\ \E a \in {"legacy", "createOld"} : Stand(r, a)
    BY <1>6, <2>1 DEF FindRow, RowOf, Legacy, Live
  <2>3. \A a \in {"update", "updateOld"} : Passes(req[r].kind, a)  BY <2>1 DEF Passes, OfPhone
  <2>4. req[r].kind = "register" => \A a \in {"legacy", "createOld"} : Passes(req[r].kind, a)  BY DEF Passes, OfPhone
  <2>5. ASSUME req[r].kind = "register", NEW a \in {"legacy", "createOld"}, Stand(r, a)  PROVE Requests' /\ Flow
    BY <1>2, <2>1, <2>4, <2>5
  <2>6. ASSUME NEW i \in Rows, NEW a \in {"update", "updateOld"},
               req' = [req EXCEPT ![r] = [req[r] EXCEPT !.at = a, !.row = i]]
        PROVE  Requests' /\ Flow
    BY <1>5, <2>1, <2>3, <2>6
  <2>7. Free(r) => Requests' /\ Flow  BY <1>4, <2>1
  <2> QED  BY <2>2, <2>5, <2>6, <2>7
<1>7. CASE UpdateRow(r)
  <2>1. req[r].at \in {"update", "updateOld"} /\ req[r].at \in OfPhone /\ req[r].kind \in {"register", "sync"}
    BY <1>1, <1>7 DEF UpdateRow, Staged, Passes, OfPhone
  <2>2. Stand(r, "orphans") \/ Free(r)  BY <1>7 DEF UpdateRow
  <2>3. Passes(req[r].kind, "orphans")  BY <2>1 DEF Passes, OfPhone
  <2>4. Stand(r, "orphans") => Requests' /\ Flow  BY <1>2, <2>1, <2>3
  <2>5. Free(r) => Requests' /\ Flow  BY <1>4, <2>1
  <2> QED  BY <2>2, <2>4, <2>5
<1>8. CASE DropOrphans(r) \/ Merge(r) \/ Create(r) \/ DeleteRows(r) \/ MarkRow(r)
  <2>1. req[r].at \in OfPhone \cup OfRow /\ Free(r)
    BY <1>8 DEF DropOrphans, Merge, Create, DeleteRows, MarkRow, OfPhone, OfRow
  <2> QED  BY <1>4, <2>1
<1>9. CASE FindLegacy(r)
  <2>1. req[r].at = "legacy" /\ req[r].at \in OfPhone /\ req[r].kind = "register"
    BY <1>1, <1>9 DEF FindLegacy, Staged, Passes, OfPhone
  <2>2. \/ Stand(r, "create")
        \/ \E i \in Rows : req' = [req EXCEPT ![r] = [req[r] EXCEPT !.at = "merge", !.row = i]]
    BY <1>9 DEF FindLegacy, Legacy, Live
  <2>3. Passes(req[r].kind, "create") /\ Passes(req[r].kind, "merge")  BY <2>1 DEF Passes, OfPhone
  <2>4. Stand(r, "create") => Requests' /\ Flow  BY <1>2, <2>1, <2>3
  <2>5. ASSUME NEW i \in Rows, req' = [req EXCEPT ![r] = [req[r] EXCEPT !.at = "merge", !.row = i]]
        PROVE  Requests' /\ Flow
    BY <1>5, <2>1, <2>3, <2>5
  <2> QED  BY <2>2, <2>4, <2>5
<1>10. CASE TellRows(r)
  <2>1. req[r].at = "tell" /\ req[r].at \in OfRow /\ req[r].kind \in {"erase", "others"}
    BY <1>1, <1>10 DEF TellRows, Staged, Passes, OfPhone, OfRow
  <2>2. Stand(r, "delete") \/ Free(r)  BY <1>10 DEF TellRows
  <2>3. Passes(req[r].kind, "delete")  BY <2>1 DEF Passes
  <2>4. Stand(r, "delete") => Requests' /\ Flow  BY <1>3, <2>1, <2>3
  <2>5. Free(r) => Requests' /\ Flow  BY <1>4, <2>1
  <2> QED  BY <2>2, <2>4, <2>5
<1> QED  BY <1>6, <1>7, <1>8, <1>9, <1>10

\* A registration or a sync begins.
LEMMA PhoneRequests ==
  ASSUME Steady, NEW p \in Phones, Sync(p) \/ \E r \in Reqs : Register(r, p)
  PROVE  Requests' /\ Flow
<1>1. CASE UNCHANGED req  BY <1>1, Waiting DEF Steady
<1>2. CASE ~UNCHANGED req
  <2>1. PICK r \in Slots, k \in {"register", "sync"}, a \in {"find", "findOld"} :
          Enter(r, k, a, p) /\ (r \in Phones => k = "sync")
    <3>1. ASSUME NEW r \in Reqs, Register(r, p)
          PROVE  \E a \in {"find", "findOld"} : Enter(r, "register", a, p)
      BY <1>2, <3>1 DEF Register
    <3>2. ASSUME Sync(p)  PROVE \E a \in {"find", "findOld"} : Enter(p, "sync", a, p)
      BY <1>2, <3>2 DEF Sync
    <3> QED  BY <3>1, <3>2, SlotsAssumption DEF Slots
  <2>2. k \in OfDevices /\ a \in Stages /\ Passes(k, a) /\ a \notin OfRow  BY Names DEF Passes, OfPhone, OfRow
  <2> QED  BY <2>1, <2>2, Accepted DEF Slots
<1> QED  BY <1>1, <1>2

-----------------------------------------------------------------------------
(* Type correctness.                                                       *)

\* What is stored about passwords, links and codes.
CredentialsTyped ==
  /\ user \in Account /\ known \subseteq Passwords /\ stuck \subseteq Reqs
  /\ links \in [Reqs -> {"none", "fresh", "used", "expired", "deleted"}]
  /\ codes \in [Reqs -> {"none", "fresh", "used", "expired"}]

\* WritePassword, as two steps: what becomes of the account.
LEMMA Written ==
  ASSUME Steady, NEW r \in Slots, WritePassword(r)
  PROVE  /\ r \in Reqs /\ req[r].kind \in {"email", "google", "mobile", "change"} /\ user' \in Account
         /\ user'.password = r
         /\ user'.status = IF req[r].kind = "google" THEN "ACTIVE" ELSE user.status
<1>1. Requests /\ user \in Account  BY DEF Steady, TypeOK
<1>2. req[r].kind \in {"email", "google", "mobile", "change"}
  <2>1. Staged(req[r]) /\ req[r] # Idle /\ req[r].at = "write"  BY <1>1, Standing DEF Requests, WritePassword
  <2> QED  BY <2>1 DEF Staged, Passes, OfPhone
<1>3. r \in Reqs  BY <1>1, <1>2, Standing DEF Credential
<1> DEFINE s == IF req[r].kind = "google" THEN "ACTIVE" ELSE user.status
<1>4. s \in {"ACTIVE", "INACTIVE"} /\ r \in Passwords \cup {NULL}  BY <1>1, <1>3 DEF Account, Passwords
<1>5. user' = [user EXCEPT !.password = r, !.status = s]  BY DEF WritePassword
<1>6. user' \in Account /\ user'.password = r /\ user'.status = s
  <2>1. PICK u \in Account, x \in Passwords \cup {NULL}, t \in {"ACTIVE", "INACTIVE"} : u = user /\ x = r /\ t = s
    BY <1>1, <1>4
  <2>2. user' = [u EXCEPT !.password = x, !.status = t]  BY <1>5, <2>1
  <2>3. PICK v : v = [u EXCEPT !.password = x, !.status = t]  OBVIOUS
  <2>4. v \in Account /\ v.password = x /\ v.status = t  BY <2>1, <2>3 DEF Account
  <2> QED  BY <2>1, <2>2, <2>3, <2>4
<1> QED  BY <1>2, <1>3, <1>6 DEF s

\* Requests that begin leave them typed.
LEMMA AskTypes ==
  ASSUME Steady, NEW r \in Reqs, Ask(r)
  PROVE  CredentialsTyped'
<1>1. CredentialsTyped  BY DEF Steady, TypeOK, CredentialsTyped
<1>2. CASE UNCHANGED credentials  BY <1>1, <1>2 DEF CredentialsTyped, credentials
<1>3. CASE SetStatus(r)
  <2>1. PICK s \in {"ACTIVE", "INACTIVE"} : user' = [user EXCEPT !.status = s]  BY <1>3 DEF SetStatus
  <2>2. user' \in Account  BY <1>1, <2>1 DEF CredentialsTyped, Account
  <2> QED  BY <1>1, <1>3, <2>2 DEF CredentialsTyped, SetStatus
<1>4. CASE SetDriver(r)
  <2>1. user' \in Account  BY <1>1, <1>4 DEF CredentialsTyped, SetDriver, Account, Passwords
  <2>2. codes' \in [Reqs -> {"none", "fresh", "used", "expired"}]  BY <1>1, <1>4 DEF CredentialsTyped, SetDriver
  <2> QED  BY <1>1, <1>4, <2>1, <2>2 DEF CredentialsTyped, SetDriver, Passwords
<1> QED  BY <1>2, <1>3, <1>4 DEF Ask, EmailLogin, AskPassword, Forgot, Login, Present, AskRow

\* So do those that go on.
LEMMA ServeTypes ==
  ASSUME Steady, NEW r \in Slots, Serve(r)
  PROVE  CredentialsTyped'
<1>1. CredentialsTyped /\ Requests  BY DEF Steady, TypeOK, CredentialsTyped
<1>2. CASE UNCHANGED credentials  BY <1>1, <1>2 DEF CredentialsTyped, credentials
<1>3. req[r].kind \in Credential => r \in Reqs  BY <1>1, Standing
<1>4. CASE WritePassword(r)
  <2>1. r \in Reqs /\ user' \in Account  BY <1>4, Written
  <2> QED  BY <1>1, <1>4, <2>1 DEF CredentialsTyped, WritePassword, Passwords
<1>5. CASE MailPassword(r) \/ FailPassword(r)
  <2>1. req[r].kind \in Credential
    <3>1. Staged(req[r]) /\ req[r] # Idle /\ req[r].at = "mail"
      BY <1>1, <1>5, Standing DEF Requests, MailPassword, FailPassword
    <3> QED  BY <3>1 DEF Staged, Passes, OfPhone, Credential
  <2> QED  BY <1>1, <1>3, <1>5, <2>1 DEF CredentialsTyped, MailPassword, FailPassword, Passwords
<1>6. CASE Rollback(r)
  <2>1. req[r].kind = "email" /\ req[r].at = "rollback" /\ req[r].read \in Account
    BY <1>1, <1>6, Standing DEF Rollback, At, Requests, About
  <2>2. [user EXCEPT !.password = req[r].read.password] \in Account
    <3>1. req[r].read.password \in Passwords \cup {NULL}  BY <2>1 DEF Account
    <3> QED  BY <1>1, <3>1 DEF CredentialsTyped, Account
  <2> QED  BY <1>1, <1>3, <1>6, <2>1, <2>2 DEF CredentialsTyped, Rollback, Credential
<1>7. CASE Activate(r)
  <2>1. user' \in Account  BY <1>1, <1>7 DEF CredentialsTyped, Activate, Account
  <2> QED  BY <1>1, <1>7, <2>1 DEF CredentialsTyped, Activate
<1>8. CASE ClearLinks(r)  BY <1>1, <1>8 DEF CredentialsTyped, ClearLinks
<1>9. CASE MakeLink(r) \/ MakeCode(r)  BY <1>1, <1>9 DEF CredentialsTyped, MakeLink, MakeCode
<1>10. CASE ResetPassword(r)
  <2>1. req[r].kind \in Credential  BY <1>10 DEF ResetPassword, At, Credential
  <2>2. user' \in Account /\ known' \subseteq Passwords
    BY <1>1, <1>3, <1>10, <2>1 DEF CredentialsTyped, ResetPassword, Account, Passwords
  <2>3. links' \in [Reqs -> {"none", "fresh", "used", "expired", "deleted"}]
    BY <1>1, <1>10 DEF CredentialsTyped, ResetPassword
  <2> QED  BY <1>1, <1>10, <2>2, <2>3 DEF CredentialsTyped, ResetPassword
<1>11. CASE SpendCode(r)  BY <1>1, <1>11 DEF CredentialsTyped, SpendCode
<1> QED
  BY <1>2, <1>4, <1>5, <1>6, <1>7, <1>8, <1>9, <1>10, <1>11
  DEF Serve, CheckAccess, Send, FindRow, UpdateRow, DropOrphans, FindLegacy, Merge, Create, TellRows, DeleteRows, MarkRow

\* What is stored about devices.
DevicesTyped ==
  /\ rows \in [Rows -> Row \cup {NULL, Gone}]
  /\ \A p \in Phones : \A i, j \in RowOf(p) : i = j
  /\ app \in [Phones -> {"old", "new"}] /\ session \in [Phones -> {"in", "out"}]
  /\ news \subseteq Phones

\* A row is neither NULL nor Gone, and has a phone, a model and a block.
LEMMA RowFields ==
  ASSUME mix \in Mixes, NEW x \in Row
  PROVE  /\ x # NULL /\ x # Gone /\ x.dev \in Phones \cup {NULL} /\ x.blocked \in BOOLEAN
         /\ x.like \in {mix.model[p] : p \in Phones}
BY MixesAssumption DEF Row

\* What is live is a row.
LEMMA LiveRows ==
  ASSUME mix \in Mixes, rows \in [Rows -> Row \cup {NULL, Gone}], NEW i \in Live
  PROVE  i \in Rows /\ rows[i] \in Row
BY DEF Live

\* Steps after which no row has a phone that it had not before keep one row for a phone.
LEMMA StillUnique ==
  ASSUME DevicesTyped, rows' \in [Rows -> Row \cup {NULL, Gone}], mix' = mix, mix \in Mixes,
         \A i \in Rows : rows'[i] \in {NULL, Gone} \/ (i \in Live /\ rows'[i].dev = rows[i].dev) \/ rows'[i].dev = NULL
  PROVE  \A p \in Phones : \A i, j \in RowOf(p)' : i = j
<1> SUFFICES ASSUME NEW p \in Phones, NEW i \in RowOf(p)', NEW j \in RowOf(p)'  PROVE i = j
  OBVIOUS
<1>1. i \in RowOf(p) /\ j \in RowOf(p)
  BY NullAssumption DEF RowOf, Live
<1> QED  BY <1>1 DEF DevicesTyped

\* One action after the other.
LEMMA RowActions ==
  ASSUME Steady, NEW r \in Slots, UpdateRow(r) \/ DropOrphans(r) \/ Merge(r) \/ Create(r) \/ DeleteRows(r) \/ MarkRow(r)
  PROVE  rows' \in [Rows -> Row \cup {NULL, Gone}] /\ \A p \in Phones : \A i, j \in RowOf(p)' : i = j
<1>1. /\ DevicesTyped /\ rows \in [Rows -> Row \cup {NULL, Gone}] /\ mix \in Mixes
      /\ \A i \in Live : i \in Rows /\ rows[i] \in Row
  BY LiveRows DEF Steady, TypeOK, DevicesTyped
<1>2. mix' = mix  BY DEF UpdateRow, DropOrphans, Merge, Create, DeleteRows, MarkRow
<1>3. /\ req[r].at \in OfPhone => req[r].of \in Phones
      /\ req[r].at \in {"update", "updateOld", "merge"} => req[r].row \in Rows
  BY DEF Steady, Requests, About
<1>4. CASE UNCHANGED rows  BY <1>1, <1>4 DEF DevicesTyped, RowOf, Live
<1>5. CASE UpdateRow(r) /\ ~UNCHANGED rows
  <2>1. PICK i, m : i = req[r].row /\ m = mix.model[req[r].of]  OBVIOUS
  <2>2. i \in Live /\ rows' = [rows EXCEPT ![i].like = m]  BY <1>5, <2>1 DEF UpdateRow
  <2>3. m \in {mix.model[p] : p \in Phones}  BY <1>3, <1>5, <2>1 DEF UpdateRow, OfPhone
  <2>4. PICK x \in Row : x = rows[i]  BY <1>1, <2>2
  <2>5. PICK y : y = [x EXCEPT !.like = m]  OBVIOUS
  <2>6. y \in Row /\ y.dev = x.dev  BY <2>3, <2>5 DEF Row
  <2>7. rows' = [rows EXCEPT ![i] = y]  BY <2>2, <2>4, <2>5
  <2>8. rows' \in [Rows -> Row \cup {NULL, Gone}]  BY <1>1, <2>6, <2>7
  <2>9. \A j \in Rows : rows'[j] \in {NULL, Gone} \/ (j \in Live /\ rows'[j].dev = rows[j].dev)
    BY <1>1, <2>2, <2>4, <2>6, <2>7 DEF Live
  <2> QED  BY <1>1, <1>2, <2>8, <2>9, StillUnique DEF Row
<1>6. CASE DropOrphans(r) \/ DeleteRows(r)
  <2>1. \A j \in Rows : rows'[j] = Gone \/ rows'[j] = rows[j]  BY <1>6 DEF DropOrphans, DeleteRows
  <2>2. rows' = [j \in Rows |-> rows'[j]]  BY <1>6 DEF DropOrphans, DeleteRows
  <2>3. rows' \in [Rows -> Row \cup {NULL, Gone}]  BY <1>1, <2>1, <2>2
  <2>4. \A j \in Rows : rows'[j] \in {NULL, Gone} \/ (j \in Live /\ rows'[j].dev = rows[j].dev)
    BY <1>1, <2>1 DEF Live
  <2> QED  BY <1>1, <1>2, <2>3, <2>4, StillUnique DEF Row
<1>7. CASE Merge(r) /\ ~UNCHANGED rows
  <2>1. PICK i, p, m : i = req[r].row /\ p = req[r].of /\ m = mix.model[req[r].of]  OBVIOUS
  <2>2. i \in Live /\ RowOf(p) \subseteq {i} /\ rows' = [rows EXCEPT ![i] = [rows[i] EXCEPT !.dev = p, !.like = m]]
    BY <1>7, <2>1 DEF Merge
  <2>3. p \in Phones /\ m \in {mix.model[q] : q \in Phones}  BY <1>3, <1>7, <2>1 DEF Merge, OfPhone
  <2>4. PICK x \in Row : x = rows[i]  BY <1>1, <2>2
  <2>5. PICK y : y = [x EXCEPT !.dev = p, !.like = m]  OBVIOUS
  <2>6. y \in Row /\ y.dev = p
    <3>1. [x EXCEPT !.dev = p] \in Row  BY <2>3 DEF Row
    <3>2. [[x EXCEPT !.dev = p] EXCEPT !.like = m] \in Row  BY <2>3, <3>1 DEF Row
    <3>3. [[x EXCEPT !.dev = p] EXCEPT !.like = m] = [x EXCEPT !.dev = p, !.like = m]  BY DEF Row
    <3> QED  BY <2>3, <2>5, <3>2, <3>3 DEF Row
  <2>7. rows' = [rows EXCEPT ![i] = y]  BY <2>2, <2>4, <2>5
  <2>8. rows' \in [Rows -> Row \cup {NULL, Gone}]  BY <1>1, <2>6, <2>7
  <2>9. ASSUME NEW q \in Phones, NEW j \in RowOf(q)', NEW k \in RowOf(q)'  PROVE j = k
    <3>1. \A n \in Rows \ {i} : rows'[n] = rows[n]  BY <1>1, <2>7
    <3>2. rows'[i].dev = p  BY <1>1, <2>2, <2>6, <2>7
    <3>3. \A n \in Rows \ {i} : n \in RowOf(q)' => n \in RowOf(q)  BY <3>1 DEF RowOf, Live
    <3>4. CASE q = p  BY <2>2, <2>9, <3>3, <3>4 DEF RowOf, Live
    <3>5. CASE q # p
      <4>1. i \notin RowOf(q)'  BY <3>2, <3>5 DEF RowOf
      <4>2. j \in RowOf(q) /\ k \in RowOf(q)  BY <2>9, <3>3, <4>1 DEF RowOf, Live
      <4> QED  BY <1>1, <4>2 DEF DevicesTyped
    <3> QED  BY <3>4, <3>5
  <2> QED  BY <2>8, <2>9
<1>8. CASE Create(r) /\ ~UNCHANGED rows
  <2>1. PICK p, m : p = (IF req[r].at = "create" THEN req[r].of ELSE NULL) /\ m = mix.model[req[r].of]  OBVIOUS
  <2>2. PICK i \in NextRow : rows' = [rows EXCEPT ![i] = [dev |-> p, like |-> m, blocked |-> FALSE]]
    BY <1>8, <2>1 DEF Create
  <2>3. req[r].at \in {"create", "createOld"} /\ req[r].of \in Phones  BY <1>3, <1>8 DEF Create, OfPhone
  <2>4. p \in Phones \cup {NULL} /\ m \in {mix.model[q] : q \in Phones}  BY <2>1, <2>3
  <2>5. p # NULL => RowOf(p) = {}  BY <1>8, <2>1, <2>3 DEF Create
  <2>6. i \in Rows /\ rows[i] = NULL  BY <1>1, <2>2, MixesAssumption DEF NextRow
  <2>7. PICK y : y = [dev |-> p, like |-> m, blocked |-> FALSE]  OBVIOUS
  <2>8. y \in Row /\ y.dev = p  BY <2>4, <2>7 DEF Row
  <2>9. rows' = [rows EXCEPT ![i] = y]  BY <2>2, <2>7
  <2>10. rows' \in [Rows -> Row \cup {NULL, Gone}]  BY <1>1, <2>8, <2>9
  <2>11. ASSUME NEW q \in Phones, NEW j \in RowOf(q)', NEW k \in RowOf(q)'  PROVE j = k
    <3>1. \A n \in Rows \ {i} : rows'[n] = rows[n]  BY <1>1, <2>9
    <3>2. rows'[i].dev = p  BY <1>1, <2>6, <2>8, <2>9
    <3>3. \A n \in Rows \ {i} : n \in RowOf(q)' => n \in RowOf(q)  BY <3>1 DEF RowOf, Live
    <3>4. CASE q = p
      <4>1. RowOf(q) = {}  BY <2>5, <3>4, NullAssumption
      <4> QED  BY <2>11, <3>3, <4>1 DEF RowOf, Live
    <3>5. CASE q # p
      <4>1. i \notin RowOf(q)'  BY <3>2, <3>5 DEF RowOf
      <4>2. j \in RowOf(q) /\ k \in RowOf(q)  BY <2>11, <3>3, <4>1 DEF RowOf, Live
      <4> QED  BY <1>1, <4>2 DEF DevicesTyped
    <3> QED  BY <3>4, <3>5
  <2> QED  BY <2>10, <2>11
<1>9. CASE MarkRow(r) /\ ~UNCHANGED rows
  <2>1. PICK i, b : i = req[r].of /\ b = (req[r].kind = "block")  OBVIOUS
  <2>2. i \in Live /\ rows' = [rows EXCEPT ![i].blocked = b] /\ b \in BOOLEAN  BY <1>9, <2>1 DEF MarkRow
  <2>3. PICK x \in Row : x = rows[i]  BY <1>1, <2>2
  <2>4. PICK y : y = [x EXCEPT !.blocked = b]  OBVIOUS
  <2>5. y \in Row /\ y.dev = x.dev  BY <2>2, <2>4 DEF Row
  <2>6. rows' = [rows EXCEPT ![i] = y]  BY <2>2, <2>3, <2>4
  <2>7. rows' \in [Rows -> Row \cup {NULL, Gone}]  BY <1>1, <2>5, <2>6
  <2>8. \A j \in Rows : rows'[j] \in {NULL, Gone} \/ (j \in Live /\ rows'[j].dev = rows[j].dev)
    BY <1>1, <2>2, <2>3, <2>5, <2>6 DEF Live
  <2> QED  BY <1>1, <1>2, <2>7, <2>8, StillUnique DEF Row
<1> QED  BY <1>4, <1>5, <1>6, <1>7, <1>8, <1>9

\* Who else changes what is stored about devices: sign-ins, events and upgrades.
LEMMA PhoneTypes ==
  ASSUME Steady, NEW p \in Phones,
         SignIn(p) \/ Upgrade(p) \/ Hear(p) \/ Miss(p) \/ Sync(p) \/ \E r \in Reqs : Register(r, p)
  PROVE  DevicesTyped' /\ CredentialsTyped' /\ mix' = mix
<1>1. DevicesTyped /\ CredentialsTyped  BY DEF Steady, TypeOK, DevicesTyped, CredentialsTyped
<1>2. UNCHANGED <<rows, credentials, mix>>  BY DEF SignIn, Upgrade, Hear, Miss, Sync, Register
<1>3. app' \in [Phones -> {"old", "new"}] /\ session' \in [Phones -> {"in", "out"}] /\ news' \subseteq Phones
  BY <1>1 DEF SignIn, Upgrade, Hear, Miss, Sync, Register, DevicesTyped
<1> QED  BY <1>1, <1>2, <1>3 DEF DevicesTyped, CredentialsTyped, credentials, RowOf, Live, Row

\* What goes on keeps the devices typed.
LEMMA ServeDevices ==
  ASSUME Steady, NEW r \in Slots, Serve(r)
  PROVE  DevicesTyped' /\ mix' = mix
<1>1. DevicesTyped  BY DEF Steady, TypeOK, DevicesTyped
<1>2. CASE UNCHANGED devices /\ mix' = mix  BY <1>1, <1>2 DEF DevicesTyped, devices, RowOf, Live, Row
<1>3. CASE UpdateRow(r) \/ DropOrphans(r) \/ Merge(r) \/ Create(r)
  <2>1. UNCHANGED <<app, session, news, mix>>  BY <1>3 DEF UpdateRow, DropOrphans, Merge, Create
  <2> QED  BY <1>1, <1>3, <2>1, RowActions DEF DevicesTyped, Row
<1>4. CASE DeleteRows(r) \/ MarkRow(r) \/ TellRows(r)
  <2>1. UNCHANGED <<app, session, mix>>  BY <1>4 DEF DeleteRows, MarkRow, TellRows
  <2>2. \A I : I \subseteq Live => Told(I) \subseteq Phones
    <3>1. \A i \in Live : rows[i].dev \in Phones \cup {NULL}
      BY LiveRows, RowFields DEF Steady, TypeOK
    <3> QED  BY <3>1 DEF Told
  <2>3. news' \subseteq Phones
    <3>1. \E I : I \subseteq Live /\ (news' = news \cup Told(I) \/ news' = news)
      <4>1. CASE TellRows(r)
        <5>1. {req[r].of} \cap Live \subseteq Live /\ Live \ {req[r].of} \subseteq Live  OBVIOUS
        <5> QED  BY <4>1, <5>1 DEF TellRows
      <4>2. CASE DeleteRows(r)
        <5>1. PICK I : I = (IF req[r].kind = "others" THEN Live \ {req[r].of} ELSE Live \cap {req[r].of})  OBVIOUS
        <5>2. I \subseteq Live  BY <5>1
        <5>3. news' = IF req[r].kind = "remove" THEN news \cup Told(I) ELSE news  BY <4>2, <5>1 DEF DeleteRows
        <5> QED  BY <5>2, <5>3
      <4>3. CASE MarkRow(r)
        <5>1. CASE req[r].of \in Live
          <6>1. {req[r].of} \subseteq Live  BY <5>1
          <6>2. news' = news \cup Told({req[r].of}) \/ news' = news  BY <4>3, <5>1 DEF MarkRow
          <6> QED  BY <6>1, <6>2
        <5>2. CASE req[r].of \notin Live
          <6>1. news' = news /\ {} \subseteq Live  BY <4>3, <5>2 DEF MarkRow
          <6> QED  BY <6>1
        <5> QED  BY <5>1, <5>2
      <4> QED  BY <1>4, <4>1, <4>2, <4>3
    <3> QED  BY <1>1, <2>2, <3>1 DEF DevicesTyped
  <2>4. rows' \in [Rows -> Row \cup {NULL, Gone}] /\ \A p \in Phones : \A i, j \in RowOf(p)' : i = j
    <3>1. CASE TellRows(r)  BY <1>1, <3>1 DEF TellRows, DevicesTyped, RowOf, Live
    <3>2. CASE DeleteRows(r) \/ MarkRow(r)  BY <3>2, RowActions
    <3> QED  BY <1>4, <3>1, <3>2
  <2> QED  BY <1>1, <2>1, <2>3, <2>4 DEF DevicesTyped, Row
<1> QED
  BY <1>2, <1>3, <1>4
  DEF Serve, CheckAccess, WritePassword, MailPassword, FailPassword, Rollback, Activate, ClearLinks, MakeLink, MakeCode,
      Send, ResetPassword, SpendCode, FindRow, FindLegacy, devices

\* What begins leaves the devices alone.
LEMMA AskDevices ==
  ASSUME Steady, NEW r \in Reqs, Ask(r)
  PROVE  DevicesTyped' /\ mix' = mix
<1>1. DevicesTyped  BY DEF Steady, TypeOK, DevicesTyped
<1>2. UNCHANGED <<devices, mix>>
  BY DEF Ask, EmailLogin, AskPassword, SetStatus, SetDriver, Forgot, Login, Present, AskRow, devices
<1> QED  BY <1>1, <1>2 DEF DevicesTyped, devices, RowOf, Live, Row

\* Codes and links that expire stay typed.
LEMMA ExpireTypes ==
  ASSUME Steady, NEW q \in Reqs, Expire(q)
  PROVE  CredentialsTyped' /\ DevicesTyped' /\ UNCHANGED <<req, mix>>
<1>1. DevicesTyped /\ CredentialsTyped  BY DEF Steady, TypeOK, DevicesTyped, CredentialsTyped
<1>2. UNCHANGED <<user, known, stuck, devices, req, mix>>  BY DEF Expire
<1>3. /\ links' \in [Reqs -> {"none", "fresh", "used", "expired", "deleted"}]
      /\ codes' \in [Reqs -> {"none", "fresh", "used", "expired"}]
  BY <1>1 DEF Expire, CredentialsTyped
<1> QED  BY <1>1, <1>2, <1>3 DEF DevicesTyped, CredentialsTyped, devices, RowOf, Live, Row

\* A part of TypeOK is of the credentials, one of the devices and one of the requests.
LEMMA SteadyParts ==
  ASSUME CredentialsTyped', DevicesTyped', Requests', mix' = mix, mix \in Mixes
  PROVE  Steady'
BY DEF Steady, TypeOK, CredentialsTyped, DevicesTyped, Requests, Row, RowOf, Live

\* The initial state is well formed, and every slot idle.
LEMMA SteadyInit == Init => Steady
<1> SUFFICES ASSUME Init  PROVE Steady
  OBVIOUS
<1>1. mix \in Mixes  BY DEF Init
<1>2. CredentialsTyped
  <2>1. user \in Account  BY <1>1, MixesAssumption DEF Init, Account, Passwords, First
  <2> QED  BY <2>1 DEF Init, CredentialsTyped, Passwords
<1>3. DevicesTyped
  <2>1. Live = {}  BY DEF Init, Live
  <2> QED  BY <1>1, <2>1, MixesAssumption DEF Init, DevicesTyped, RowOf
<1>4. Requests
  <2>1. Idle \in Request  BY DEF Idle, Request, Stages
  <2>2. \A r \in Slots : req[r] = Idle  BY DEF Init
  <2>3. req \in [Slots -> Request]  BY <2>1 DEF Init
  <2>4. Staged(Idle) /\ About(Idle) /\ Idle.kind = NULL /\ Idle.before = {}
    BY DEF Staged, About, Idle, OfPhone, OfRow
  <2> QED  BY <2>2, <2>3, <2>4 DEF Requests
<1> QED  BY <1>1, <1>2, <1>3, <1>4 DEF Steady, TypeOK, CredentialsTyped, DevicesTyped, Requests

\* Every step keeps the state well formed, and lets the requests flow.
LEMMA SteadyNext ==
  ASSUME Steady, [Next]_vars
  PROVE  Steady' /\ Flow /\ mix' = mix
<1>1. ASSUME NEW r \in Slots, Serve(r)  PROVE Steady' /\ Flow /\ mix' = mix
  <2>1. Requests' /\ Flow  BY <1>1, CredentialRequests, DeviceRequests DEF Serve
  <2> QED  BY <1>1, <2>1, ServeTypes, ServeDevices, SteadyParts DEF Steady
<1>2. ASSUME NEW r \in Reqs, Ask(r)  PROVE Steady' /\ Flow /\ mix' = mix
  BY <1>2, AskRequests, AskTypes, AskDevices, SteadyParts DEF Steady
<1>3. ASSUME NEW q \in Reqs, Expire(q)  PROVE Steady' /\ Flow /\ mix' = mix
  BY <1>3, ExpireTypes, Waiting, SteadyParts DEF Steady
<1>4. ASSUME NEW p \in Phones, Sync(p) \/ \E r \in Reqs : Register(r, p)  PROVE Steady' /\ Flow /\ mix' = mix
  BY <1>4, PhoneRequests, PhoneTypes, SteadyParts DEF Steady
<1>5. ASSUME NEW p \in Phones, SignIn(p) \/ Upgrade(p) \/ Hear(p) \/ Miss(p)  PROVE Steady' /\ Flow /\ mix' = mix
  <2>1. UNCHANGED req  BY <1>5 DEF SignIn, Upgrade, Hear, Miss
  <2> QED  BY <1>5, <2>1, PhoneTypes, Waiting, SteadyParts DEF Steady
<1>6. CASE UNCHANGED vars
  <2>1. CredentialsTyped' /\ DevicesTyped' /\ UNCHANGED <<req, mix>>
    BY <1>6 DEF vars, credentials, devices, Steady, TypeOK, CredentialsTyped, DevicesTyped, RowOf, Live, Row
  <2> QED  BY <2>1, Waiting, SteadyParts DEF Steady
<1> QED  BY <1>1, <1>2, <1>3, <1>4, <1>5, <1>6 DEF Next

-----------------------------------------------------------------------------
(* What stays true of passwords.                                           *)

\* Passwords known and stuck remain so, and become stuck only with a request that is under way.
Keeps == known \subseteq known' /\ stuck \subseteq stuck' /\ \A q \in stuck' \ stuck : req[q].at # "done"

\* A request about credentials keeps its kind, what it read, and what was before it; once it is
\* done it stands still.
LEMMA Lasting ==
  ASSUME Steady, Flow, NEW q \in Slots, req[q].kind \in Credential
  PROVE  /\ req'[q].kind = req[q].kind /\ req'[q].read = req[q].read /\ req'[q].before = req[q].before
         /\ req'[q].of = req[q].of
         /\ req[q].at = "done" => req'[q] = req[q]
         /\ req[q] # Idle /\ req[q].read \in Account
<1>1. Requests  BY DEF Steady
<1>2. req[q] # Idle  BY NullAssumption DEF Idle
<1>3. req[q].read \in Account  BY <1>1, <1>2 DEF Requests, About
<1>4. req'[q] = req[q] \/ Onward(q)  BY <1>2 DEF Flow, Taken
<1> QED  BY <1>2, <1>3, <1>4 DEF Onward

\* Who has an outcome is done.
LEMMA Outcome ==
  ASSUME Steady, NEW q \in Slots, req[q].out \in Outcomes
  PROVE  req[q].at = "done" /\ req[q].kind \in Credential
BY NullAssumption, Standing DEF Steady, Requests, About

\* What a login has put back, and that it overlapped a request, stays so.
LEMMA Remains ==
  ASSUME Steady, Flow, Keeps, NEW q \in Reqs, NEW s \in Reqs, req[s].kind \in Credential,
         NEW x, Restores(q, x), Overlap(q, s)
  PROVE  Restores(q, x)' /\ Overlap(q, s)'
<1>1. q \in Slots /\ s \in Slots  BY DEF Slots
<1>2. req[q].at = "done" /\ req[q].kind \in Credential  BY <1>1, Outcome, Names DEF Restores
<1>3. req'[q] = req[q] /\ req'[s].before = req[s].before  BY <1>1, <1>2, Lasting
<1> QED  BY <1>2, <1>3 DEF Restores, Overlap, Keeps

\* A password that is accounted for remains so.
LEMMA AccountedStays ==
  ASSUME Steady, Flow, Keeps, NEW s \in Reqs, req[s].kind \in Credential, Accounted(s)
  PROVE  Accounted(s)'
BY Remains DEF Accounted, Keeps

\* So does the excuse for an activated account without one.
LEMMA EmptiedStays ==
  ASSUME Steady, Flow, Keeps, NEW s \in Reqs, req[s].kind \in Credential, Emptied(s)
  PROVE  Emptied(s)'
BY Remains DEF Emptied

\* Those that write are requests about credentials.
LEMMA WroteKind ==
  ASSUME Steady, NEW a \in Reqs, Wrote(a)
  PROVE  req[a].kind \in Credential
BY Names DEF Wrote, Activated, Activates

\* What a request has read remains accounted for, and what it begins with is.
LEMMA Reads ==
  ASSUME Steady, Flow, Keeps, CredentialsInv, mix' = mix
  PROVE  /\ HeldRead' /\ EmptyRead'
         /\ mix.user.password # NULL => \A q \in Slots : req'[q] # Idle => req'[q].read.password # NULL
<1>0. Requests  BY DEF Steady
<1>1. ASSUME NEW q \in Slots, req'[q] # Idle
      PROVE  \/ Taken(q)
             \/ req[q] # Idle /\ req'[q].read = req[q].read /\ req'[q].before = req[q].before
  <2>1. req[q].at # "idle" => req[q] # Idle  BY <1>0, Standing
  <2> QED  BY <1>1, <2>1 DEF Flow, Onward
<1>2. HeldRead'
  <2> SUFFICES ASSUME NEW q \in Slots, NEW s \in Reqs, req'[q] # Idle, req'[q].read.password = s
               PROVE  /\ s # q /\ req'[s].kind \in Credential
                      /\ s \in req'[q].before => Accounted(s)'
    BY DEF HeldRead
  <2>1. s \in Slots  BY DEF Slots
  <2>2. CASE Taken(q)
    <3>1. user.password = s /\ req[s].kind \in Credential  BY <2>2 DEF Taken, CredentialsInv, Origins
    <3>2. s # q  BY <2>2, <3>1, NullAssumption DEF Taken, Idle
    <3>3. req'[s].kind = req[s].kind  BY <2>1, <3>1, Lasting
    <3>4. ASSUME s \in req'[q].before  PROVE Accounted(s)'
      <4>1. req[s].at = "done"  BY <2>2, <3>4 DEF Taken
      <4>2. Accounted(s)  BY <3>1, <4>1 DEF CredentialsInv, HeldNow
      <4> QED  BY <3>1, <4>2, AccountedStays
    <3> QED  BY <3>1, <3>2, <3>3, <3>4
  <2>3. CASE req[q] # Idle /\ req'[q].read = req[q].read /\ req'[q].before = req[q].before
    <3>1. s # q /\ req[s].kind \in Credential /\ (s \in req[q].before => Accounted(s))
      BY <2>3 DEF CredentialsInv, HeldRead
    <3>2. req'[s].kind = req[s].kind  BY <2>1, <3>1, Lasting
    <3> QED  BY <2>3, <3>1, <3>2, AccountedStays
  <2> QED  BY <1>1, <2>2, <2>3
<1>3. EmptyRead'
  <2> SUFFICES ASSUME NEW q \in Slots, NEW a \in Reqs, req'[q] # Idle, req'[q].read.password = NULL,
                      a \in req'[q].before, Activates(a)'
               PROVE  Emptied(a)'
    BY DEF EmptyRead
  <2>1. a \in Slots  BY DEF Slots
  <2>2. req[a].at = "done" /\ req[a].kind \in Credential
    <3>1. CASE Taken(q)  BY <1>0, <2>1, <3>1, Standing DEF Taken
    <3>2. CASE req'[q].before = req[q].before  BY <1>0, <2>1, <3>2, Standing
    <3> QED  BY <1>1, <3>1, <3>2
  <2>3. Activates(a)  BY <2>1, <2>2, Lasting DEF Activates
  <2>4. Emptied(a)
    <3>1. CASE Taken(q)  BY <2>3, <3>1 DEF Taken, CredentialsInv, EmptyNow, Wrote, Activated
    <3>2. CASE req[q] # Idle /\ req'[q].read = req[q].read /\ req'[q].before = req[q].before
      BY <2>3, <3>2 DEF CredentialsInv, EmptyRead
    <3> QED  BY <1>1, <3>1, <3>2
  <2> QED  BY <2>2, <2>4, EmptiedStays
<1>4. ASSUME mix.user.password # NULL, NEW q \in Slots, req'[q] # Idle  PROVE req'[q].read.password # NULL
  BY <1>1, <1>4 DEF CredentialsInv, FirstPassword, Taken
<1> QED  BY <1>2, <1>3, <1>4

-----------------------------------------------------------------------------
(* Steps that concern no password.                                         *)

\* Request q neither begins nor ends to write, mail or take back a password.
Calm(q) ==
  /\ req[q].at \notin {"mail", "rollback", "activate"} /\ req'[q].at \notin {"mail", "rollback", "activate"}
  /\ ~Activates(q)'
Quiet == \A q \in Slots : req'[q] = req[q] \/ Calm(q)

\* So are those that begin, and those about devices.
LEMMA OthersCalm ==
  ASSUME Steady, Steady', Flow, NEW q \in Slots, Taken(q) \/ req[q].kind \notin Credential
  PROVE  req'[q] = req[q] \/ Calm(q)
<1>0. Requests /\ Requests'  BY DEF Steady
<1>1. req[q].kind \notin Credential
  BY NullAssumption DEF Taken, Idle
<1>2. req[q].at \notin {"mail", "rollback", "activate"}
  <2>1. Staged(req[q])  BY <1>0 DEF Requests
  <2> QED  BY <1>1, <2>1 DEF Staged, Passes, OfPhone, Credential, Idle
<1>3. CASE Taken(q)
  <2>1. req'[q].at \notin {"mail", "rollback", "activate"} /\ req'[q].out = NULL  BY <1>3 DEF Taken
  <2>2. NULL # "ok"  BY NullAssumption, Names
  <2> QED  BY <1>2, <2>1, <2>2 DEF Calm, Activates
<1>4. CASE req'[q] = Idle
  <2>1. NULL # "ok"  BY NullAssumption, Names
  <2> QED  BY <1>2, <1>4, <2>1 DEF Calm, Activates, Idle
<1>5. CASE Onward(q)
  <2>1. req'[q].kind = req[q].kind  BY <1>5 DEF Onward
  <2>2. Staged(req'[q])  BY <1>0 DEF Requests, Staged, Passes
  <2>3. req'[q].at \notin {"mail", "rollback", "activate"}
    BY <1>1, <2>1, <2>2 DEF Staged, Passes, OfPhone, Credential, Idle
  <2>4. req'[q].kind \notin {"google", "email"}  BY <1>1, <2>1 DEF Credential
  <2> QED  BY <1>2, <2>3, <2>4 DEF Calm, Activates
<1> QED  BY <1>3, <1>4, <1>5 DEF Flow

\* A step that leaves the passwords alone keeps all that is said of them.
LEMMA QuietCredentials ==
  ASSUME Steady, Flow, Quiet, CredentialsInv, UNCHANGED <<user, known, stuck, mix>>
  PROVE  CredentialsInv'
<1>0. Keeps /\ \A q \in Reqs : q \in Slots  BY DEF Keeps, Slots
<1>1. HeldRead' /\ EmptyRead' /\ (mix.user.password # NULL => \A q \in Slots : req'[q] # Idle => req'[q].read.password # NULL)
  BY <1>0, Reads
<1>2. Origins'
  <2>1. ASSUME NEW r \in Reqs, req[r].kind \in Credential
        PROVE  req'[r].kind = req[r].kind /\ (req[r].at = "done" => req'[r] = req[r])
    BY <1>0, <2>1, Lasting
  <2>2. \A r \in known \cap Reqs : /\ req'[r].kind \in Credential
                                   /\ req'[r].kind = "reset" => req'[r].at = "done" /\ req'[r].out = "ok"
    BY <2>1 DEF CredentialsInv, Origins
  <2>3. \A r \in stuck : req'[r].at = "done"
    <3>1. stuck \subseteq Reqs  BY DEF Steady, TypeOK
    <3>2. ASSUME NEW r \in stuck  PROVE req[r].at = "done" /\ req[r].kind \in Credential
      <4>1. r \in Slots /\ req[r].at = "done"  BY <1>0, <3>1, <3>2 DEF CredentialsInv, Origins
      <4> QED  BY <4>1, Standing DEF Steady
    <3> QED  BY <2>1, <3>1, <3>2
  <2>4. \A r \in Reqs : req'[r].kind = "change" /\ req'[r].at = "mail" => r \in known
    BY <1>0 DEF Quiet, Calm, CredentialsInv, Origins
  <2>5. \A r \in Reqs : user.password = r => req'[r].kind \in Credential
    BY <2>1 DEF CredentialsInv, Origins
  <2> QED  BY <2>2, <2>3, <2>4, <2>5 DEF Origins
<1>3. HeldNow'
  <2> SUFFICES ASSUME NEW s \in Reqs, user.password = s
               PROVE  Accounted(s)' \/ req'[s].at \in {"mail", "rollback"}
    BY DEF HeldNow
  <2>1. req[s].kind \in Credential  BY DEF CredentialsInv, Origins
  <2>2. CASE Accounted(s)  BY <1>0, <2>1, <2>2, AccountedStays
  <2>3. CASE req[s].at \in {"mail", "rollback"}  BY <1>0, <2>3 DEF Quiet, Calm
  <2> QED  BY <2>2, <2>3 DEF CredentialsInv, HeldNow
<1>4. EmptyNow'
  <2> SUFFICES ASSUME NEW a \in Reqs, user.password = NULL, Wrote(a)'  PROVE Emptied(a)'
    BY DEF EmptyNow
  <2>1. Wrote(a)
    <3>1. req'[a] = req[a]  BY <1>0 DEF Quiet, Calm, Wrote, Activated
    <3> QED  BY <3>1 DEF Wrote, Activated, Activates
  <2>2. Emptied(a) /\ req[a].kind \in Credential  BY <2>1, WroteKind DEF CredentialsInv, EmptyNow
  <2> QED  BY <1>0, <2>2, EmptiedStays
<1>5. FirstPassword'  BY <1>1 DEF FirstPassword, CredentialsInv
<1>6. ActiveBy'
  <2>1. ASSUME NEW r \in Reqs, req[r].kind = "status" \/ Activated(r)
        PROVE  req'[r].kind = "status" \/ Activated(r)'
    <3>1. CASE req[r].kind = "status"  BY <1>0, <3>1, Lasting, Names
    <3>2. CASE Activates(r)
      <4>1. req'[r] = req[r]  BY <1>0, <3>2, Outcome, Lasting, Names DEF Activates
      <4> QED  BY <3>2, <4>1 DEF Activated, Activates
    <3>3. CASE req[r].kind = "google" /\ req[r].at = "mail"
      <4>1. req'[r] = req[r]  BY <1>0, <3>3 DEF Quiet, Calm
      <4> QED  BY <3>3, <4>1 DEF Activated
    <3> QED  BY <2>1, <3>1, <3>2, <3>3 DEF Activated
  <2> QED  BY <2>1 DEF ActiveBy, CredentialsInv
<1> QED  BY <1>1, <1>2, <1>3, <1>4, <1>5, <1>6 DEF CredentialsInv

\* Requests that go on without a password.
LEMMA QuietServes ==
  ASSUME Steady, Steady', Flow, NEW r \in Slots,
         \/ CheckAccess(r) \/ ClearLinks(r) \/ MakeLink(r) \/ MakeCode(r) \/ Send(r) \/ SpendCode(r)
         \/ FindRow(r) \/ UpdateRow(r) \/ DropOrphans(r) \/ FindLegacy(r) \/ Merge(r) \/ Create(r)
         \/ TellRows(r) \/ DeleteRows(r) \/ MarkRow(r)
  PROVE  Quiet
<1>0. Requests /\ req \in [Slots -> Request] /\ Staged(req[r]) /\ (req[r] # Idle => req[r].read \in Account)
  BY DEF Steady, TypeOK, Requests, About
<1>1. ASSUME NEW q \in Slots, q # r  PROVE req'[q] = req[q]
  BY <1>0, <1>1 DEF CheckAccess, ClearLinks, MakeLink, MakeCode, Send, SpendCode, FindRow, UpdateRow, DropOrphans,
                    FindLegacy, Merge, Create, TellRows, DeleteRows, MarkRow, Stand, End, Free
<1>2. CASE req[r].kind \notin Credential  BY <1>1, <1>2, OthersCalm DEF Quiet
<1>3. CASE req[r].kind \in Credential
  <2>1. \/ CheckAccess(r) \/ ClearLinks(r) \/ MakeLink(r) \/ MakeCode(r) \/ Send(r) \/ SpendCode(r)
    <3>1. req[r].at \notin OfPhone \cup OfRow
      BY <1>0, <1>3, NullAssumption DEF Staged, Passes, OfPhone, OfRow, Idle, Credential
    <3> QED  BY <3>1 DEF FindRow, UpdateRow, DropOrphans, FindLegacy, Merge, Create, TellRows, DeleteRows, MarkRow,
                         OfPhone, OfRow
  <2>2. \A a : Stand(r, a) => Goes(r, a, req[r].out)  BY <1>0, StandGoes
  <2>3. \A o : End(r, o) => Goes(r, "done", o)  BY <1>0, EndGoes
  <2>4. CASE CheckAccess(r)
    <3>1. /\ req[r].at = "access" /\ req[r].kind = "email"
          /\ \/ End(r, "refused") \/ Stand(r, "write")
             \/ End(r, "ok") /\ req[r].read.status = "ACTIVE"
      BY <2>4 DEF CheckAccess, At, Settled
    <3>2. req[r].out = NULL  BY <1>0, <3>1 DEF Requests, About
    <3>3. NULL # "ok"  BY NullAssumption, Names
    <3>4. Calm(r)  BY <2>2, <2>3, <3>1, <3>2, <3>3 DEF Goes, Calm, Activates
    <3> QED  BY <1>1, <3>4 DEF Quiet
  <2>5. CASE ClearLinks(r) \/ MakeLink(r) \/ MakeCode(r)
    <3>1. /\ req[r].at \in {"clear", "link", "code"} /\ req[r].kind \in {"forgot", "login"}
          /\ Stand(r, "link") \/ Stand(r, "send")
      BY <2>5 DEF ClearLinks, MakeLink, MakeCode, At
    <3>2. Calm(r)  BY <2>2, <3>1 DEF Goes, Calm, Activates
    <3> QED  BY <1>1, <3>2 DEF Quiet
  <2>6. CASE Send(r) \/ SpendCode(r)
    <3>1. /\ req[r].at \in {"send", "spend"} /\ req[r].kind \in {"forgot", "login", "verify"}
          /\ End(r, "ok") \/ End(r, "failed")
      BY <1>0, <2>6 DEF Send, SpendCode, At, Staged, Passes, Idle, OfPhone
    <3>2. Calm(r)  BY <2>3, <3>1 DEF Goes, Calm, Activates
    <3> QED  BY <1>1, <3>2 DEF Quiet
  <2> QED  BY <2>1, <2>4, <2>5, <2>6
<1> QED  BY <1>2, <1>3

-----------------------------------------------------------------------------
(* Steps that write, mail and take back passwords.                         *)

\* What was true of passwords, requests and activations before a step is so after it.
LEMMA Since ==
  ASSUME Steady, Flow, Keeps, CredentialsInv
  PROVE  /\ \A s \in Reqs : user.password = s => Accounted(s)' \/ req[s].at \in {"mail", "rollback"}
         /\ \A a \in Reqs : user.password = NULL /\ Wrote(a) => Emptied(a)'
         /\ \A r \in Reqs : req[r].kind \in Credential =>
              /\ r \in Slots /\ req'[r].kind = req[r].kind /\ req'[r].read = req[r].read /\ req'[r].before = req[r].before
              /\ req[r].at = "done" => req'[r] = req[r]
         /\ \A r \in Reqs : Activates(r) => Activates(r)'
         /\ \A r \in known \cap Reqs : /\ req'[r].kind \in Credential
                                       /\ req'[r].kind = "reset" => req'[r].at = "done" /\ req'[r].out = "ok"
         /\ \A r \in stuck : r \in Reqs /\ req[r].at = "done" /\ req'[r].at = "done"
         /\ \A r \in Reqs : user.password = r => req[r].kind \in Credential
<1>0. \A q \in Reqs : q \in Slots  BY DEF Slots
<1>1. ASSUME NEW r \in Reqs, req[r].kind \in Credential
      PROVE  /\ req'[r].kind = req[r].kind /\ req'[r].read = req[r].read /\ req'[r].before = req[r].before
             /\ req[r].at = "done" => req'[r] = req[r]
  BY <1>0, <1>1, Lasting
<1>2. \A r \in Reqs : user.password = r => req[r].kind \in Credential  BY DEF CredentialsInv, Origins
<1>3. ASSUME NEW s \in Reqs, user.password = s  PROVE Accounted(s)' \/ req[s].at \in {"mail", "rollback"}
  BY <1>2, <1>3, AccountedStays DEF CredentialsInv, HeldNow
<1>4. ASSUME NEW a \in Reqs, user.password = NULL, Wrote(a)  PROVE Emptied(a)'
  BY <1>4, WroteKind, EmptiedStays DEF CredentialsInv, EmptyNow
<1>5. ASSUME NEW r \in Reqs, Activates(r)  PROVE Activates(r)'
  <2>1. req'[r] = req[r]  BY <1>0, <1>5, Outcome, Lasting, Names DEF Activates
  <2> QED  BY <1>5, <2>1 DEF Activates
<1>6. \A r \in known \cap Reqs : /\ req'[r].kind \in Credential
                                 /\ req'[r].kind = "reset" => req'[r].at = "done" /\ req'[r].out = "ok"
  BY <1>1 DEF CredentialsInv, Origins
<1>7. ASSUME NEW r \in stuck  PROVE r \in Reqs /\ req[r].at = "done" /\ req'[r].at = "done"
  <2>1. r \in Reqs  BY <1>7 DEF Steady, TypeOK
  <2>2. req[r].at = "done"  BY <1>7 DEF CredentialsInv, Origins
  <2>3. req[r].kind \in Credential  BY <1>0, <2>1, <2>2, Standing DEF Steady
  <2> QED  BY <1>1, <2>1, <2>2, <2>3
<1> QED  BY <1>0, <1>1, <1>2, <1>3, <1>4, <1>5, <1>6, <1>7

\* The password is written.
LEMMA WriteKeeps ==
  ASSUME Steady, Flow, CredentialsInv, NEW r \in Slots, WritePassword(r)
  PROVE  CredentialsInv'
<1>0. Requests /\ req \in [Slots -> Request]  BY DEF Steady, TypeOK
<1>1. /\ r \in Reqs /\ req[r].kind \in {"email", "google", "mobile", "change"}
      /\ user'.password = r /\ user'.status = IF req[r].kind = "google" THEN "ACTIVE" ELSE user.status
  BY Written
<1>2. Goes(r, "mail", req[r].out) /\ req[r].at = "write" /\ mix' = mix
  BY <1>0, StandGoes DEF WritePassword
<1>3. known' = (IF req[r].kind = "change" THEN known \cup {r} ELSE known) /\ stuck' = stuck  BY DEF WritePassword
<1>4. Keeps  BY <1>3 DEF Keeps
<1>5. HeldRead' /\ EmptyRead' /\ (mix.user.password # NULL => \A q \in Slots : req'[q] # Idle => req'[q].read.password # NULL)
  BY <1>2, <1>4, Reads
<1>6. \A q \in Reqs \ {r} : req'[q] = req[q]  BY <1>2 DEF Goes, Slots
<1>7. req'[r].kind = req[r].kind /\ req'[r].at = "mail"  BY <1>2 DEF Goes
<1>8. Origins'
  <2>1. \A q \in known' \cap Reqs : /\ req'[q].kind \in Credential
                                    /\ req'[q].kind = "reset" => req'[q].at = "done" /\ req'[q].out = "ok"
    BY <1>1, <1>3, <1>4, <1>7, Since DEF Credential
  <2>2. \A q \in stuck' : req'[q].at = "done"  BY <1>3, <1>4, Since
  <2>3. \A q \in Reqs : req'[q].kind = "change" /\ req'[q].at = "mail" => q \in known'
    BY <1>3, <1>6, <1>7 DEF CredentialsInv, Origins
  <2>4. req'[r].kind \in Credential  BY <1>1, <1>7 DEF Credential
  <2> QED  BY <1>1, <2>1, <2>2, <2>3, <2>4 DEF Origins
<1>9. HeldNow'  BY <1>1, <1>7 DEF HeldNow
<1>10. r # NULL  BY <1>1, NullAssumption
<1>11. EmptyNow' /\ FirstPassword'  BY <1>1, <1>2, <1>5, <1>10 DEF EmptyNow, FirstPassword
<1>12. ActiveBy'
  <2>1. CASE req[r].kind = "google"  BY <1>1, <1>7, <2>1 DEF ActiveBy, Activated
  <2>2. CASE req[r].kind # "google"
    <3>1. ~Activated(r) /\ req[r].kind # "status"
      <4>1. req[r].out = NULL  BY <1>0, <1>1, <1>2 DEF Requests, About
      <4>2. NULL # "ok"  BY NullAssumption, Names
      <4> QED  BY <1>1, <1>2, <4>1, <4>2 DEF Activated, Activates
    <3>2. \A q \in Reqs \ {r} : req[q].kind = "status" \/ Activated(q) => req'[q].kind = "status" \/ Activated(q)'
      BY <1>6 DEF Activated, Activates
    <3>3. user.status = "ACTIVE" => mix.user.status = "ACTIVE" \/ \E q \in Reqs \ {r} : req[q].kind = "status" \/ Activated(q)
      BY <3>1 DEF CredentialsInv, ActiveBy
    <3> QED  BY <1>1, <1>2, <2>2, <3>2, <3>3 DEF ActiveBy
  <2> QED  BY <2>1, <2>2
<1> QED  BY <1>5, <1>8, <1>9, <1>11, <1>12 DEF CredentialsInv

\* The mail with it is sent, or fails.
LEMMA MailKeeps ==
  ASSUME Steady, Flow, CredentialsInv, NEW r \in Slots, MailPassword(r) \/ FailPassword(r)
  PROVE  CredentialsInv'
<1>0. Requests /\ req \in [Slots -> Request]  BY DEF Steady, TypeOK
<1>1. req[r].at = "mail" /\ req[r].kind \in {"email", "google", "mobile", "change"} /\ r \in Reqs
  <2>1. req[r].at = "mail"  BY DEF MailPassword, FailPassword
  <2>2. Staged(req[r]) /\ req[r] # Idle  BY <1>0, <2>1, Standing DEF Requests
  <2>3. req[r].kind \in {"email", "google", "mobile", "change"}  BY <2>1, <2>2 DEF Staged, Passes, OfPhone
  <2>4. r \in Reqs  BY <1>0, <2>3, Standing DEF Credential
  <2> QED  BY <2>1, <2>3, <2>4
<1>2. user' = user /\ mix' = mix  BY DEF MailPassword, FailPassword
<1>3. \/ /\ known' = known \cup {r} /\ stuck' = stuck
         /\ \/ req[r].kind = "email" /\ req[r].read.status # "ACTIVE" /\ Goes(r, "activate", NULL)
            \/ ~(req[r].kind = "email" /\ req[r].read.status # "ACTIVE") /\ Goes(r, "done", "ok")
      \/ /\ known' = known /\ stuck' = (IF req[r].kind \in {"google", "mobile"} THEN stuck \cup {r} ELSE stuck)
         /\ \/ req[r].kind = "email" /\ Goes(r, "rollback", NULL)
            \/ req[r].kind # "email" /\ Goes(r, "done", IF req[r].kind = "google" THEN "ok" ELSE "failed")
  <2>1. req[r].out = NULL  BY <1>0, <1>1 DEF Requests, About
  <2>2. \A a : Stand(r, a) => Goes(r, a, NULL)  BY <1>0, <2>1, StandGoes
  <2>3. \A o : End(r, o) => Goes(r, "done", o)  BY <1>0, EndGoes
  <2> QED  BY <2>2, <2>3 DEF MailPassword, FailPassword
<1>4. Keeps  BY <1>1, <1>3 DEF Keeps
<1>5. HeldRead' /\ EmptyRead' /\ (mix.user.password # NULL => \A q \in Slots : req'[q] # Idle => req'[q].read.password # NULL)
  BY <1>2, <1>4, Reads
<1>6. \A q \in Reqs \ {r} : req'[q] = req[q]  BY <1>3 DEF Goes, Slots
<1>7. req'[r].kind = req[r].kind /\ req'[r].read = req[r].read /\ req'[r].at # "mail"  BY <1>3 DEF Goes
<1>8. Origins'
  <2>1. \A q \in known' \cap Reqs : /\ req'[q].kind \in Credential
                                    /\ req'[q].kind = "reset" => req'[q].at = "done" /\ req'[q].out = "ok"
    BY <1>1, <1>3, <1>4, <1>7, Since DEF Credential
  <2>2. \A q \in stuck' : req'[q].at = "done"  BY <1>3, <1>4, Since DEF Goes
  <2>3. \A q \in Reqs : req'[q].kind = "change" /\ req'[q].at = "mail" => q \in known'
    BY <1>3, <1>6, <1>7 DEF CredentialsInv, Origins
  <2>4. \A q \in Reqs : user'.password = q => req'[q].kind \in Credential  BY <1>2, <1>4, Since
  <2> QED  BY <2>1, <2>2, <2>3, <2>4 DEF Origins
<1>9. HeldNow'
  <2> SUFFICES ASSUME NEW s \in Reqs, user.password = s
               PROVE  Accounted(s)' \/ req'[s].at \in {"mail", "rollback"}
    BY <1>2 DEF HeldNow
  <2>1. CASE s # r  BY <1>4, <1>6, <2>1, Since
  <2>2. CASE s = r
    <3>1. r \in known' \/ r \in stuck' \/ req'[r].at = "rollback"
      BY <1>1, <1>3 DEF CredentialsInv, Origins, Goes
    <3> QED  BY <2>2, <3>1 DEF Accounted
  <2> QED  BY <2>1, <2>2
<1>10. NULL # "ok"  BY NullAssumption, Names
<1>11. EmptyNow'
  <2> SUFFICES ASSUME NEW a \in Reqs, user.password = NULL, Wrote(a)'  PROVE Emptied(a)'
    BY <1>2 DEF EmptyNow
  <2>1. Wrote(a)
    <3>1. CASE a # r  BY <1>6, <3>1 DEF Wrote, Activated, Activates
    <3>2. CASE a = r  BY <1>1, <1>3, <1>7, <1>10, <3>2 DEF Wrote, Activated, Activates, Goes
    <3> QED  BY <3>1, <3>2
  <2> QED  BY <1>4, <2>1, Since
<1>12. FirstPassword'  BY <1>2, <1>5 DEF FirstPassword, CredentialsInv
<1>13. ActiveBy'
  <2>1. ASSUME NEW q \in Reqs, req[q].kind = "status" \/ Activated(q)
        PROVE  req'[q].kind = "status" \/ Activated(q)'
    <3>1. CASE q # r  BY <1>6, <2>1, <3>1 DEF Activated, Activates
    <3>2. CASE q = r
      <4>1. req[r].kind = "google"
        <5>1. req[r].out = NULL  BY <1>0, <1>1 DEF Requests, About
        <5> QED  BY <1>1, <1>10, <2>1, <3>2, <5>1 DEF Activated, Activates
      <4>2. Goes(r, "done", "ok")  BY <1>3, <4>1
      <4> QED  BY <3>2, <4>1, <4>2 DEF Activated, Activates, Goes
    <3> QED  BY <3>1, <3>2
  <2> QED  BY <1>2, <2>1 DEF ActiveBy, CredentialsInv
<1> QED  BY <1>5, <1>8, <1>9, <1>11, <1>12, <1>13 DEF CredentialsInv

\* A login takes its password back, or cannot.
LEMMA RollbackKeeps ==
  ASSUME Steady, Flow, CredentialsInv, NEW r \in Slots, Rollback(r)
  PROVE  CredentialsInv'
<1>0. Requests /\ req \in [Slots -> Request] /\ user \in Account  BY DEF Steady, TypeOK
<1>1. req[r].at = "rollback" /\ req[r].kind = "email" /\ r \in Reqs /\ req[r] # Idle /\ req[r].read \in Account
  <2>1. req[r].at = "rollback" /\ req[r].kind = "email"  BY DEF Rollback, At
  <2>2. r \in Reqs  BY <1>0, <2>1, Standing DEF Credential
  <2>3. req[r] # Idle  BY <1>0, <2>1, Standing
  <2> QED  BY <1>0, <2>1, <2>2, <2>3 DEF Requests, About
<1>2. mix' = mix /\ known' = known /\ Goes(r, "done", "failed")  BY <1>0, EndGoes DEF Rollback
<1> DEFINE x == req[r].read.password
<1>3. \/ user'.password = x /\ user'.status = user.status /\ stuck' = stuck
      \/ user' = user /\ stuck' = stuck \cup {r}
  <2>1. CASE user' = user /\ stuck' = stuck \cup {r}  BY <2>1
  <2>2. CASE user' = [user EXCEPT !.password = x] /\ stuck' = stuck  BY <1>0, <2>2 DEF Account
  <2> QED  BY <2>1, <2>2 DEF Rollback
<1>4. Keeps  BY <1>1, <1>2, <1>3 DEF Keeps
<1>5. HeldRead' /\ EmptyRead' /\ (mix.user.password # NULL => \A q \in Slots : req'[q] # Idle => req'[q].read.password # NULL)
  BY <1>2, <1>4, Reads
<1>6. \A q \in Reqs \ {r} : req'[q] = req[q]  BY <1>2 DEF Goes, Slots
<1>7. /\ req'[r].kind = "email" /\ req'[r].at = "done" /\ req'[r].out = "failed"
      /\ req'[r].read = req[r].read /\ req'[r].before = req[r].before
  BY <1>1, <1>2 DEF Goes
<1>8. r \notin stuck  BY <1>1, <1>4, Since
\* What it puts back was there when it began: it overlaps all that had not ended by then.
<1>9. ASSUME NEW s \in Reqs, s # r, s \notin req[r].before, stuck' = stuck
      PROVE  Restores(r, x)' /\ Overlap(r, s)'
  <2>1. r \notin req[s].before  BY <1>0, <1>1, Standing DEF Slots
  <2>2. req'[s].before = req[s].before  BY <1>6, <1>9
  <2> QED  BY <1>7, <1>8, <1>9, <2>1, <2>2 DEF Restores, Overlap
<1>10. Origins'
  <2>1. \A q \in known' \cap Reqs : /\ req'[q].kind \in Credential
                                    /\ req'[q].kind = "reset" => req'[q].at = "done" /\ req'[q].out = "ok"
    BY <1>2, <1>4, Since
  <2>2. \A q \in stuck' : req'[q].at = "done"  BY <1>3, <1>4, <1>7, Since
  <2>3. \A q \in Reqs : req'[q].kind = "change" /\ req'[q].at = "mail" => q \in known'
    BY <1>2, <1>6, <1>7 DEF CredentialsInv, Origins
  <2>4. ASSUME NEW q \in Reqs, user'.password = q  PROVE req'[q].kind \in Credential
    <3>1. CASE user'.password = x  BY <1>1, <1>4, <2>4, <3>1, Since DEF CredentialsInv, HeldRead
    <3>2. CASE user' = user  BY <1>4, <2>4, <3>2, Since
    <3> QED  BY <1>3, <3>1, <3>2
  <2> QED  BY <2>1, <2>2, <2>3, <2>4 DEF Origins
<1>11. HeldNow'
  <2> SUFFICES ASSUME NEW s \in Reqs, user'.password = s
               PROVE  Accounted(s)' \/ req'[s].at \in {"mail", "rollback"}
    BY DEF HeldNow
  <2>1. CASE user'.password = x /\ stuck' = stuck
    <3>1. s # r /\ req[s].kind \in Credential /\ (s \in req[r].before => Accounted(s))
      BY <1>1, <2>1 DEF CredentialsInv, HeldRead
    <3>2. CASE s \in req[r].before  BY <1>4, <3>1, <3>2, AccountedStays
    <3>3. CASE s \notin req[r].before
      <4>1. Restores(r, s)' /\ Overlap(r, s)'  BY <1>7, <1>9, <2>1, <3>1, <3>3 DEF Restores
      <4> QED  BY <1>1, <4>1 DEF Accounted
    <3> QED  BY <3>2, <3>3
  <2>2. CASE user' = user /\ stuck' = stuck \cup {r}
    <3>1. CASE s # r  BY <1>4, <1>6, <2>2, <3>1, Since
    <3>2. CASE s = r  BY <2>2, <3>2 DEF Accounted
    <3> QED  BY <3>1, <3>2
  <2> QED  BY <1>3, <2>1, <2>2
<1>12. EmptyNow'
  <2> SUFFICES ASSUME NEW a \in Reqs, user'.password = NULL, Wrote(a)'  PROVE Emptied(a)'
    BY DEF EmptyNow
  <2>1. a # r  BY <1>7 DEF Wrote, Activated, Activates
  <2>2. req'[a] = req[a] /\ Wrote(a)  BY <1>6, <2>1 DEF Wrote, Activated, Activates
  <2>3. req[a].kind \in Credential  BY <2>2, WroteKind
  <2>4. CASE user'.password = x /\ stuck' = stuck
    <3>1. CASE a \in req[r].before
      <4>1. req[a].at = "done"  BY <1>0, <3>1, Standing
      <4>2. Activates(a)  BY <2>2, <4>1 DEF Wrote, Activated
      <4>3. Emptied(a)  BY <1>1, <2>4, <3>1, <4>2 DEF CredentialsInv, EmptyRead
      <4> QED  BY <1>4, <2>3, <4>3, EmptiedStays
    <3>2. CASE a \notin req[r].before
      <4>1. Restores(r, NULL)' /\ Overlap(r, a)'  BY <1>7, <1>9, <2>1, <2>4, <3>2 DEF Restores
      <4> QED  BY <1>1, <4>1 DEF Emptied
    <3> QED  BY <3>1, <3>2
  <2>5. CASE user' = user  BY <1>4, <2>2, <2>5, Since
  <2> QED  BY <1>3, <2>4, <2>5
<1>13. FirstPassword'
  <2>1. mix.user.password # NULL => user.password # NULL /\ x # NULL
    BY <1>1 DEF CredentialsInv, FirstPassword
  <2> QED  BY <1>2, <1>3, <1>5, <2>1 DEF FirstPassword
<1>14. ActiveBy'
  <2>1. ASSUME NEW q \in Reqs, req[q].kind = "status" \/ Activated(q)
        PROVE  req'[q].kind = "status" \/ Activated(q)'
    <3>1. q # r
      <4>1. req[r].out = NULL  BY <1>0, <1>1 DEF Requests, About
      <4> QED  BY <1>1, <2>1, <4>1, NullAssumption, Names DEF Activated, Activates
    <3> QED  BY <1>6, <2>1, <3>1 DEF Activated, Activates
  <2>2. user'.status = user.status  BY <1>3
  <2> QED  BY <1>2, <2>1, <2>2 DEF ActiveBy, CredentialsInv
<1> QED  BY <1>5, <1>10, <1>11, <1>12, <1>13, <1>14 DEF CredentialsInv

\* The account is activated.
LEMMA ActivateKeeps ==
  ASSUME Steady, Flow, CredentialsInv, NEW r \in Slots, Activate(r)
  PROVE  CredentialsInv'
<1>0. Requests /\ req \in [Slots -> Request] /\ user \in Account  BY DEF Steady, TypeOK
<1>1. req[r].at = "activate" /\ req[r].kind = "email" /\ r \in Reqs /\ req[r].read.status # "ACTIVE"
  <2>1. req[r].at = "activate" /\ req[r].kind = "email"  BY DEF Activate, At
  <2>2. r \in Reqs  BY <1>0, <2>1, Standing DEF Credential
  <2> QED  BY <1>0, <2>1, <2>2 DEF Requests, About
<1>2. UNCHANGED <<mix, known, stuck>> /\ Goes(r, "done", "ok")  BY <1>0, EndGoes DEF Activate
<1>3. user'.password = user.password  BY <1>0 DEF Activate, Account
<1>4. Keeps  BY <1>2 DEF Keeps
<1>5. HeldRead' /\ EmptyRead' /\ (mix.user.password # NULL => \A q \in Slots : req'[q] # Idle => req'[q].read.password # NULL)
  BY <1>2, <1>4, Reads
<1>6. \A q \in Reqs \ {r} : req'[q] = req[q]  BY <1>2 DEF Goes, Slots
<1>7. req'[r].kind = "email" /\ req'[r].at = "done" /\ req'[r].out = "ok" /\ req'[r].read = req[r].read
  BY <1>1, <1>2 DEF Goes
<1>8. Origins'
  <2>1. \A q \in Reqs : req'[q].kind = "change" /\ req'[q].at = "mail" => q \in known'
    BY <1>2, <1>6, <1>7 DEF CredentialsInv, Origins
  <2> QED  BY <1>2, <1>3, <1>4, <2>1, Since DEF Origins
<1>9. HeldNow'
  <2> SUFFICES ASSUME NEW s \in Reqs, user.password = s
               PROVE  Accounted(s)' \/ req'[s].at \in {"mail", "rollback"}
    BY <1>3 DEF HeldNow
  <2> QED  BY <1>1, <1>4, <1>6, Since
<1>10. EmptyNow'
  <2> SUFFICES ASSUME NEW a \in Reqs, user.password = NULL, Wrote(a)'  PROVE Emptied(a)'
    BY <1>3 DEF EmptyNow
  <2>1. Wrote(a)  BY <1>1, <1>6 DEF Wrote, Activated, Activates
  <2> QED  BY <1>4, <2>1, Since
<1>11. FirstPassword'  BY <1>2, <1>3, <1>5 DEF FirstPassword, CredentialsInv
<1>12. ActiveBy'  BY <1>1, <1>7 DEF ActiveBy, Activated, Activates
<1> QED  BY <1>5, <1>8, <1>9, <1>10, <1>11, <1>12 DEF CredentialsInv

\* An administrator sets the status, or a driver's password with its code.
LEMMA SetKeeps ==
  ASSUME Steady, Flow, CredentialsInv, NEW r \in Reqs, SetStatus(r) \/ SetDriver(r)
  PROVE  CredentialsInv'
<1>0. Requests /\ req \in [Slots -> Request] /\ user \in Account /\ r \in Slots  BY DEF Steady, TypeOK, Slots
<1>1. mix' = mix /\ stuck' = stuck /\ \E k \in {"status", "driver"} : Begins(r, k, "done", NULL)
  BY <1>0, EnterBegins DEF SetStatus, SetDriver
<1>2. \/ user'.password = user.password /\ known' = known /\ req'[r].kind = "status"
      \/ /\ user'.password = r /\ user'.status = user.status /\ known' = known \cup {r}
         /\ req'[r].kind = "driver"
  <2>1. CASE SetStatus(r)
    <3>1. Begins(r, "status", "done", NULL)  BY <1>0, <2>1, EnterBegins DEF SetStatus
    <3> QED  BY <1>0, <2>1, <3>1 DEF SetStatus, Account, Begins
  <2>2. CASE SetDriver(r)
    <3>1. Begins(r, "driver", "done", NULL)  BY <1>0, <2>2, EnterBegins DEF SetDriver
    <3> QED  BY <1>0, <2>2, <3>1 DEF SetDriver, Account, Begins
  <2> QED  BY <2>1, <2>2
<1>3. Keeps  BY <1>1, <1>2 DEF Keeps
<1>4. HeldRead' /\ EmptyRead' /\ (mix.user.password # NULL => \A q \in Slots : req'[q] # Idle => req'[q].read.password # NULL)
  BY <1>1, <1>3, Reads
<1>5. /\ \A q \in Reqs \ {r} : req'[q] = req[q]
      /\ req[r] = Idle /\ req'[r].at = "done" /\ req'[r].kind \in {"status", "driver"}
  BY <1>1 DEF Begins, Slots
<1>6. Origins'
  <2>1. \A q \in known' \cap Reqs : /\ req'[q].kind \in Credential
                                    /\ req'[q].kind = "reset" => req'[q].at = "done" /\ req'[q].out = "ok"
    BY <1>2, <1>3, <1>5, Since DEF Credential
  <2>2. \A q \in stuck' : req'[q].at = "done"  BY <1>1, <1>3, Since
  <2>3. \A q \in Reqs : req'[q].kind = "change" /\ req'[q].at = "mail" => q \in known'
    BY <1>3, <1>5 DEF CredentialsInv, Origins, Keeps
  <2>4. \A q \in Reqs : user'.password = q => req'[q].kind \in Credential
    BY <1>2, <1>3, <1>5, Since DEF Credential
  <2> QED  BY <2>1, <2>2, <2>3, <2>4 DEF Origins
<1>7. HeldNow'
  <2> SUFFICES ASSUME NEW s \in Reqs, user'.password = s
               PROVE  Accounted(s)' \/ req'[s].at \in {"mail", "rollback"}
    BY DEF HeldNow
  <2>1. CASE user'.password = user.password
    <3>1. Accounted(s)' \/ req[s].at \in {"mail", "rollback"}  BY <1>3, <2>1, Since
    <3> QED  BY <1>5, <3>1 DEF Idle
  <2>2. CASE user'.password = r /\ known' = known \cup {r}  BY <2>2 DEF Accounted
  <2> QED  BY <1>2, <2>1, <2>2
<1>8. EmptyNow'
  <2> SUFFICES ASSUME NEW a \in Reqs, user'.password = NULL, Wrote(a)'  PROVE Emptied(a)'
    BY DEF EmptyNow
  <2>1. user.password = NULL  BY <1>2, NullAssumption
  <2>2. Wrote(a)  BY <1>5 DEF Wrote, Activated, Activates
  <2> QED  BY <1>3, <2>1, <2>2, Since
<1>9. FirstPassword'  BY <1>1, <1>2, <1>4, NullAssumption DEF FirstPassword, CredentialsInv
<1>10. ActiveBy'
  <2>1. CASE req'[r].kind = "status"  BY <2>1 DEF ActiveBy
  <2>2. CASE user'.status = user.status
    <3>1. ~Activated(r) /\ req[r].kind # "status"
      BY <1>5, NullAssumption, Names DEF Idle, Activated, Activates
    <3>2. \A q \in Reqs \ {r} : req[q].kind = "status" \/ Activated(q) => req'[q].kind = "status" \/ Activated(q)'
      BY <1>5 DEF Activated, Activates
    <3> QED  BY <1>1, <2>2, <3>1, <3>2 DEF ActiveBy, CredentialsInv
  <2> QED  BY <1>2, <2>1, <2>2
<1> QED  BY <1>4, <1>6, <1>7, <1>8, <1>9, <1>10 DEF CredentialsInv

\* A link's password is set.
LEMMA ResetKeeps ==
  ASSUME Steady, Flow, CredentialsInv, NEW r \in Slots, ResetPassword(r)
  PROVE  CredentialsInv'
<1>0. Requests /\ req \in [Slots -> Request] /\ user \in Account  BY DEF Steady, TypeOK
<1>1. req[r].at = "set" /\ req[r].kind = "reset" /\ r \in Reqs
  <2>1. req[r].at = "set" /\ req[r].kind = "reset"  BY DEF ResetPassword, At
  <2> QED  BY <1>0, <2>1, Standing DEF Credential
<1>2. UNCHANGED <<mix, stuck>>  BY DEF ResetPassword
<1>3. \/ UNCHANGED <<user, known>> /\ Goes(r, "done", "failed")
      \/ /\ user'.password = r /\ user'.status = user.status /\ known' = known \cup {r}
         /\ Goes(r, "done", "ok")
  BY <1>0, EndGoes DEF ResetPassword, Account
<1>4. \A q \in Slots \ {r} : req'[q] = req[q]  BY <1>3 DEF Goes
<1>5. req'[r].kind = "reset" /\ req'[r].at = "done"  BY <1>1, <1>3 DEF Goes
<1>6. CASE UNCHANGED <<user, known>>
  <2>1. Quiet  BY <1>1, <1>4, <1>5 DEF Quiet, Calm, Activates
  <2> QED  BY <1>2, <1>6, <2>1, QuietCredentials
<1>7. CASE user'.password = r /\ user'.status = user.status /\ known' = known \cup {r} /\ Goes(r, "done", "ok")
  <2>1. Keeps  BY <1>2, <1>7 DEF Keeps
  <2>2. HeldRead' /\ EmptyRead' /\ (mix.user.password # NULL => \A q \in Slots : req'[q] # Idle => req'[q].read.password # NULL)
    BY <1>2, <2>1, Reads
  <2>3. Origins'
    <3>1. req'[r].out = "ok"  BY <1>7 DEF Goes
    <3>2. \A q \in known' \cap Reqs : /\ req'[q].kind \in Credential
                                      /\ req'[q].kind = "reset" => req'[q].at = "done" /\ req'[q].out = "ok"
      BY <1>5, <1>7, <2>1, <3>1, Since DEF Credential
    <3>3. \A q \in stuck' : req'[q].at = "done"  BY <1>2, <2>1, Since
    <3>4. \A q \in Reqs : req'[q].kind = "change" /\ req'[q].at = "mail" => q \in known'
      BY <1>4, <1>5, <2>1 DEF CredentialsInv, Origins, Keeps, Slots
    <3> QED  BY <1>5, <1>7, <3>2, <3>3, <3>4 DEF Origins, Credential
  <2>4. HeldNow'  BY <1>1, <1>7 DEF HeldNow, Accounted
  <2>5. r # NULL  BY <1>1, NullAssumption
  <2>6. EmptyNow' /\ FirstPassword'  BY <1>2, <1>7, <2>2, <2>5 DEF EmptyNow, FirstPassword
  <2>7. ActiveBy'
    <3>1. ~Activated(r) /\ req[r].kind # "status"  BY <1>1 DEF Activated, Activates
    <3>2. \A q \in Reqs \ {r} : req[q].kind = "status" \/ Activated(q) => req'[q].kind = "status" \/ Activated(q)'
      BY <1>4 DEF Activated, Activates, Slots
    <3> QED  BY <1>2, <1>7, <3>1, <3>2 DEF ActiveBy, CredentialsInv
  <2> QED  BY <2>2, <2>3, <2>4, <2>6, <2>7 DEF CredentialsInv
<1> QED  BY <1>3, <1>6, <1>7

-----------------------------------------------------------------------------
(* The account keeps a password that its owner knows.                      *)

\* No request has begun yet.
LEMMA CredentialsInit == Init => CredentialsInv
<1> SUFFICES ASSUME Init  PROVE CredentialsInv
  OBVIOUS
<1>1. Steady  BY SteadyInit
<1>2. /\ \A q \in Slots : req[q] = Idle
      /\ known = {First} /\ stuck = {} /\ user = mix.user /\ mix \in Mixes
  BY DEF Init
<1>3. First \notin Reqs /\ NULL \notin Reqs /\ user.password \in {First, NULL}
  BY <1>2, NullAssumption, SlotsAssumption, MixesAssumption DEF First
<1>4. \A q \in Reqs : req[q].kind = NULL /\ req[q].at = "idle" /\ req[q].out = NULL
  BY <1>2 DEF Idle, Slots
<1>5. Origins /\ HeldNow /\ HeldRead /\ EmptyRead  BY <1>2, <1>3, <1>4 DEF Origins, HeldNow, HeldRead, EmptyRead
<1>6. ASSUME NEW a \in Reqs  PROVE ~Wrote(a)
  BY <1>4, <1>6, NullAssumption, Names DEF Wrote, Activated, Activates
<1>7. EmptyNow /\ FirstPassword /\ ActiveBy  BY <1>2, <1>6 DEF EmptyNow, FirstPassword, ActiveBy
<1> QED  BY <1>5, <1>7 DEF CredentialsInv

\* Every step keeps passwords accounted for.
LEMMA CredentialsNext ==
  ASSUME Steady, CredentialsInv, [Next]_vars
  PROVE  CredentialsInv'
<1>0. Steady' /\ Flow /\ mix' = mix  BY SteadyNext
<1>1. ASSUME NEW r \in Slots, Serve(r)  PROVE CredentialsInv'
  <2>1. CASE WritePassword(r)  BY <1>0, <2>1, WriteKeeps
  <2>2. CASE MailPassword(r) \/ FailPassword(r)  BY <1>0, <2>2, MailKeeps
  <2>3. CASE Rollback(r)  BY <1>0, <2>3, RollbackKeeps
  <2>4. CASE Activate(r)  BY <1>0, <2>4, ActivateKeeps
  <2>5. CASE ResetPassword(r)  BY <1>0, <2>5, ResetKeeps
  <2>6. CASE \/ CheckAccess(r) \/ ClearLinks(r) \/ MakeLink(r) \/ MakeCode(r) \/ Send(r) \/ SpendCode(r)
             \/ FindRow(r) \/ UpdateRow(r) \/ DropOrphans(r) \/ FindLegacy(r) \/ Merge(r) \/ Create(r)
             \/ TellRows(r) \/ DeleteRows(r) \/ MarkRow(r)
    <3>1. Quiet  BY <1>0, <2>6, QuietServes
    <3>2. UNCHANGED <<user, known, stuck>>
      BY <2>6 DEF CheckAccess, ClearLinks, MakeLink, MakeCode, Send, SpendCode, FindRow, UpdateRow, DropOrphans,
                  FindLegacy, Merge, Create, TellRows, DeleteRows, MarkRow, credentials
    <3> QED  BY <1>0, <3>1, <3>2, QuietCredentials
  <2> QED  BY <1>1, <2>1, <2>2, <2>3, <2>4, <2>5, <2>6 DEF Serve
<1>2. ASSUME NEW r \in Reqs, Ask(r)  PROVE CredentialsInv'
  <2>1. CASE SetStatus(r) \/ SetDriver(r)  BY <1>0, <2>1, SetKeeps
  <2>2. CASE EmailLogin(r) \/ AskPassword(r) \/ Forgot(r) \/ Login(r) \/ Present(r) \/ AskRow(r)
    <3>1. UNCHANGED <<user, known, stuck>> /\ \E k, a, x : Enter(r, k, a, x)
      BY <2>2 DEF EmailLogin, AskPassword, Forgot, Login, Present, AskRow, credentials
    <3>2. PICK k, a, x : Enter(r, k, a, x)  BY <3>1
    <3>3. req \in [Slots -> Request] /\ r \in Slots  BY DEF Steady, TypeOK, Slots
    <3>4. req[r] = Idle /\ \A q \in Slots \ {r} : req'[q] = req[q]  BY <3>2, <3>3, EnterBegins DEF Begins
    <3>5. req[r].kind \notin Credential  BY <3>4, NullAssumption DEF Idle
    <3>6. Quiet  BY <1>0, <3>3, <3>4, <3>5, OthersCalm DEF Quiet
    <3> QED  BY <1>0, <3>1, <3>6, QuietCredentials
  <2> QED  BY <1>2, <2>1, <2>2 DEF Ask
<1>3. ASSUME NEW p \in Phones, Sync(p) \/ \E r \in Reqs : Register(r, p)  PROVE CredentialsInv'
  <2>1. UNCHANGED <<user, known, stuck>>  BY <1>3 DEF Sync, Register, credentials
  <2>2. req' = req \/ \E s \in Slots : \E k, a, x : Enter(s, k, a, x)  BY <1>3 DEF Sync, Register, Slots
  <2>3. req \in [Slots -> Request]  BY DEF Steady, TypeOK
  <2>4. ASSUME NEW s \in Slots, NEW k, NEW a, NEW x, Enter(s, k, a, x)  PROVE Quiet
    <3>1. req[s] = Idle /\ \A q \in Slots \ {s} : req'[q] = req[q]  BY <2>3, <2>4, EnterBegins DEF Begins
    <3>2. req[s].kind \notin Credential  BY <3>1, NullAssumption DEF Idle
    <3> QED  BY <1>0, <3>1, <3>2, OthersCalm DEF Quiet
  <2>5. Quiet  BY <2>2, <2>4 DEF Quiet
  <2> QED  BY <1>0, <2>1, <2>5, QuietCredentials
<1>4. CASE UNCHANGED <<user, known, stuck, req>>
  <2>1. Quiet  BY <1>4 DEF Quiet
  <2> QED  BY <1>0, <1>4, <2>1, QuietCredentials
<1>5. ASSUME NEW q \in Reqs, Expire(q)  PROVE CredentialsInv'
  BY <1>4, <1>5 DEF Expire
<1>6. ASSUME NEW p \in Phones, SignIn(p) \/ Upgrade(p) \/ Hear(p) \/ Miss(p)  PROVE CredentialsInv'
  BY <1>4, <1>6 DEF SignIn, Upgrade, Hear, Miss, credentials
<1>7. CASE UNCHANGED vars  BY <1>4, <1>7 DEF vars, credentials
<1> QED  BY <1>1, <1>2, <1>3, <1>5, <1>6, <1>7 DEF Next

\* When no request runs, passwords that are accounted for are known, or excused.
LEMMA CredentialsHold == Steady /\ CredentialsInv => CredentialsAgree
<1> SUFFICES ASSUME Steady, CredentialsInv  PROVE CredentialsAgree
  OBVIOUS
<1>0. \A q \in Reqs : q \in Slots  BY DEF Slots
<1>1. PasswordKnown
  <2> SUFFICES ASSUME NEW r \in Reqs, Resting, user.password = r
               PROVE  \/ r \in known /\ (req[r].kind = "reset" => req[r].out = "ok")
                      \/ r \in stuck
                      \/ \E q \in Reqs : Restores(q, r) /\ Overlap(q, r)
    BY DEF PasswordKnown
  <2>1. Accounted(r)  BY <1>0 DEF Resting, CredentialsInv, HeldNow
  <2> QED  BY <2>1 DEF Accounted, CredentialsInv, Origins
<1>2. ActiveHasPassword
  <2> SUFFICES ASSUME Resting, user.status = "ACTIVE", user.password = NULL,
                      mix.user.status = "ACTIVE" => mix.user.password # NULL
               PROVE  \/ mix.user = user
                      \/ \E r \in Reqs : req[r].kind = "status"
                      \/ \E q, r \in Reqs : Restores(q, NULL) /\ Overlap(q, r) /\ Activates(r)
    <3>1. mix.user \in [status : {"ACTIVE", "INACTIVE"}, password : {0, NULL}] /\ user \in Account
      BY MixesAssumption DEF Steady, TypeOK
    <3>2. ASSUME user.status = "ACTIVE", user.password = NULL, mix.user.status = "ACTIVE", mix.user.password = NULL
          PROVE  mix.user = user
      BY <3>1, <3>2 DEF Account
    <3> QED  BY <3>2 DEF ActiveHasPassword
  <2>1. mix.user.password = NULL  BY DEF CredentialsInv, FirstPassword
  <2>2. PICK r \in Reqs : req[r].kind = "status" \/ Activated(r)  BY <2>1 DEF CredentialsInv, ActiveBy
  <2>3. CASE req[r].kind = "status"  BY <2>3
  <2>4. CASE Activated(r)
    <3>1. Activates(r)  BY <1>0, <2>4 DEF Activated, Resting
    <3>2. Emptied(r)  BY <2>4 DEF CredentialsInv, EmptyNow, Wrote
    <3> QED  BY <3>1, <3>2 DEF Emptied
  <2> QED  BY <2>2, <2>3, <2>4
<1> QED  BY <1>1, <1>2 DEF CredentialsAgree

\* loginWithEmail(), handleGoogleCallback() and the rest of the ways to a password, however they
\* overlap: when no request runs, the password of the account is one that was mailed to its owner or
\* chosen by him, unless its mail failed for good or an overlapping login has put it back; and an
\* account that was activated has a password.
THEOREM CredentialsRight == Spec => []CredentialsSound
<1>1. Init => Steady /\ CredentialsInv  BY SteadyInit, CredentialsInit
<1>2. Steady /\ CredentialsInv /\ [Next]_vars => (Steady /\ CredentialsInv)'  BY SteadyNext, CredentialsNext
<1>3. Steady /\ CredentialsInv => CredentialsSound  BY CredentialsHold DEF CredentialsSound, Steady
<1> QED  BY <1>1, <1>2, <1>3, PTL DEF Spec

-----------------------------------------------------------------------------
(* A code or link serves once.                                             *)

\* A code or link is new only while its request is not done, and is there only if one made it.
Renewed ==
  \A q \in Reqs :
    /\ codes'[q] = "fresh" => codes[q] = "fresh" \/ req[q].at # "done"
    /\ links'[q] = "fresh" => links[q] = "fresh" \/ req[q].at = "link"
    /\ codes'[q] # "none" => \/ codes[q] # "none" \/ req'[q].kind = "driver"
                             \/ req'[q].kind = "login" /\ req'[q].at \in {"send", "done"}
    /\ links'[q] # "none" => \/ links[q] # "none"
                             \/ req'[q].kind = "forgot" /\ req'[q].at \in {"send", "done"}

\* Request r begins with a code or link that was sent, ends by marking it, or takes others back.
Proves(r) ==
  /\ req[r] = Idle /\ req'[r].kind = "verify" =>
       /\ req'[r].of \in Reqs /\ req[req'[r].of].kind \in {"login", "driver"} /\ req[req'[r].of].at = "done"
       /\ req'[r].at = "spend" => codes[req'[r].of] = "fresh"
  /\ req[r] = Idle /\ req'[r].kind = "reset" =>
       /\ req'[r].of \in Reqs /\ req[req'[r].of].kind = "forgot" /\ req[req'[r].of].at = "done"
       /\ req'[r].at = "set" => links[req'[r].of] = "fresh"
  /\ req[r].at = "spend" /\ req'[r].out = "ok" => codes'[req[r].of] = "used"
  /\ req[r].at = "set" /\ req'[r].out = "ok" => links'[req[r].of] = "used"
  /\ req[r] = Idle /\ req'[r].kind = "driver" => \A x \in Reqs \ {r} : codes'[x] # "fresh"
  /\ req[r] = Idle /\ req'[r].kind = "forgot" => req'[r].at = "clear"
  /\ req[r].at = "clear" /\ req'[r].at # "clear" => \A x \in Reqs : links'[x] # "fresh"

\* Most requests have nothing to do with them.
LEMMA ProvesNothing ==
  ASSUME Steady, NEW r \in Reqs,
         \/ req'[r] = req[r]
         \/ req[r] # Idle /\ req[r].at \notin {"spend", "set", "clear"}
         \/ req[r] = Idle /\ req'[r].kind \notin {"verify", "reset", "driver", "forgot"}
  PROVE  Proves(r)
<1>1. Requests /\ r \in Slots  BY DEF Steady, Slots
<1>2. Idle.at = "idle" /\ Idle.kind \notin Credential  BY NullAssumption DEF Idle
<1>3. req[r] = Idle => req[r].at = "idle" /\ req[r].kind \notin {"verify", "reset", "driver", "forgot"}
  BY <1>2 DEF Credential
<1>4. req[r].at # "done" => req[r].out # "ok"  BY <1>1, NullAssumption, Names DEF Requests, About
<1> QED  BY <1>3, <1>4 DEF Proves

\* The actions that make codes and links, mark them and take them back.
LEMMA ProofServes ==
  ASSUME Steady, Made, NEW r \in Slots, Serve(r)
  PROVE  Renewed /\ \A q \in Reqs : Proves(q)
<1>0. Requests /\ req \in [Slots -> Request] /\ \A q \in Reqs : q \in Slots  BY DEF Steady, TypeOK, Slots
<1>1. links \in [Reqs -> {"none", "fresh", "used", "expired", "deleted"}]
      /\ codes \in [Reqs -> {"none", "fresh", "used", "expired"}]
  BY DEF Steady, TypeOK
<1>2. \A q \in Slots \ {r} : req'[q] = req[q]
  BY <1>0 DEF Serve, CheckAccess, WritePassword, MailPassword, FailPassword, Rollback, Activate, ClearLinks, MakeLink,
              MakeCode, Send, ResetPassword, SpendCode, FindRow, UpdateRow, DropOrphans, FindLegacy, Merge, Create,
              TellRows, DeleteRows, MarkRow, Stand, End, Free
<1>3. req[r] # Idle
  <2>1. Idle.at = "idle"  BY DEF Idle
  <2>2. \/ CheckAccess(r) \/ WritePassword(r) \/ MailPassword(r) \/ FailPassword(r) \/ Rollback(r) \/ Activate(r)
        \/ ClearLinks(r) \/ MakeLink(r) \/ MakeCode(r) \/ Send(r) \/ ResetPassword(r) \/ SpendCode(r)
        => req[r].at # "idle"
    BY DEF At, CheckAccess, WritePassword, MailPassword, FailPassword, Rollback, Activate, ClearLinks,
           MakeLink, MakeCode, Send, ResetPassword, SpendCode
  <2>3. \/ FindRow(r) \/ UpdateRow(r) \/ DropOrphans(r) \/ FindLegacy(r) \/ Merge(r) \/ Create(r)
        \/ TellRows(r) \/ DeleteRows(r) \/ MarkRow(r)
        => req[r].at # "idle"
    BY DEF FindRow, UpdateRow, DropOrphans, FindLegacy, Merge, Create, TellRows, DeleteRows, MarkRow
  <2> QED  BY <2>1, <2>2, <2>3 DEF Serve
<1>4. ASSUME r \in Reqs => Proves(r)  PROVE \A q \in Reqs : Proves(q)
  BY <1>0, <1>2, <1>4, ProvesNothing
<1>5. CASE ClearLinks(r)
  <2>1. Goes(r, "link", req[r].out) /\ req[r].kind = "forgot" /\ req[r].at = "clear"
    BY <1>0, <1>5, StandGoes DEF ClearLinks, At
  <2>2. Renewed  BY <1>5 DEF Renewed, ClearLinks
  <2>3. \A x \in Reqs : links'[x] # "fresh"  BY <1>5 DEF ClearLinks
  <2>4. Proves(r)  BY <1>3, <2>1, <2>3 DEF Proves
  <2> QED  BY <1>4, <2>2, <2>4
<1>6. CASE MakeLink(r)
  <2>1. Goes(r, "send", req[r].out) /\ req[r].kind = "forgot" /\ req[r].at = "link"
    BY <1>0, <1>6, StandGoes DEF MakeLink, At
  <2>2. Renewed  BY <1>1, <1>6, <2>1 DEF Renewed, MakeLink, Goes
  <2> QED  BY <1>3, <1>4, <2>1, <2>2, ProvesNothing
<1>7. CASE MakeCode(r)
  <2>1. Goes(r, "send", req[r].out) /\ req[r].kind = "login" /\ req[r].at = "code"
    BY <1>0, <1>7, StandGoes DEF MakeCode, At
  <2>2. Renewed  BY <1>1, <1>7, <2>1 DEF Renewed, MakeCode, Goes
  <2> QED  BY <1>3, <1>4, <2>1, <2>2, ProvesNothing
<1>8. CASE ResetPassword(r)
  <2>1. req[r].kind = "reset" /\ req[r].at = "set"  BY <1>8 DEF ResetPassword, At
  <2>2. r \in Reqs  BY <1>0, <2>1, Standing DEF Credential
  <2> DEFINE q == req[r].of
  <2>3. q \in Reqs /\ req[q].kind = "forgot" /\ req[q].at = "done" /\ q # r
    BY <2>1, <2>2 DEF Made
  <2>4. req'[q] = req[q]  BY <1>0, <1>2, <2>3
  <2>5. /\ codes' = codes
        /\ \/ links' = links /\ Goes(r, "done", "failed")
           \/ links' = [links EXCEPT ![q] = "used"] /\ Goes(r, "done", "ok")
    BY <1>0, <1>8, EndGoes DEF ResetPassword
  <2>6. Renewed  BY <1>1, <2>3, <2>4, <2>5 DEF Renewed
  <2>7. req'[r].out = "ok" => links'[q] = "used"  BY <1>1, <2>3, <2>5 DEF Goes
  <2>8. Proves(r)  BY <1>3, <2>1, <2>7 DEF Proves
  <2> QED  BY <1>4, <2>6, <2>8
<1>9. CASE SpendCode(r)
  <2>1. req[r].kind = "verify" /\ req[r].at = "spend"  BY <1>9 DEF SpendCode, At
  <2>2. r \in Reqs  BY <1>0, <2>1, Standing DEF Credential
  <2> DEFINE q == req[r].of
  <2>3. q \in Reqs /\ req[q].kind \in {"login", "driver"} /\ req[q].at = "done" /\ q # r
    BY <2>1, <2>2 DEF Made
  <2>4. req'[q] = req[q]  BY <1>0, <1>2, <2>3
  <2>5. links' = links /\ codes' = [codes EXCEPT ![q] = "used"]  BY <1>9 DEF SpendCode
  <2>6. Renewed  BY <1>1, <2>3, <2>4, <2>5 DEF Renewed
  <2>7. Proves(r)  BY <1>1, <1>3, <2>1, <2>3, <2>5 DEF Proves
  <2> QED  BY <1>4, <2>6, <2>7
<1>10. CASE \/ CheckAccess(r) \/ WritePassword(r) \/ MailPassword(r) \/ FailPassword(r) \/ Rollback(r) \/ Activate(r)
            \/ Send(r) \/ FindRow(r) \/ UpdateRow(r) \/ DropOrphans(r) \/ FindLegacy(r) \/ Merge(r) \/ Create(r)
            \/ TellRows(r) \/ DeleteRows(r) \/ MarkRow(r)
  <2>1. UNCHANGED <<links, codes>> /\ req[r].at \notin {"spend", "set", "clear"}
    BY <1>10 DEF At, CheckAccess, WritePassword, MailPassword, FailPassword, Rollback, Activate, Send, FindRow, UpdateRow,
                 DropOrphans, FindLegacy, Merge, Create, TellRows, DeleteRows, MarkRow, credentials
  <2> QED  BY <1>3, <1>4, <2>1, ProvesNothing DEF Renewed
<1> QED  BY <1>5, <1>6, <1>7, <1>8, <1>9, <1>10 DEF Serve

\* Those that ask for them, and those that show them.
LEMMA ProofAsks ==
  ASSUME Steady, NEW r \in Reqs, Ask(r)
  PROVE  Renewed /\ \A q \in Reqs : Proves(q)
<1>0. req \in [Slots -> Request] /\ r \in Slots /\ Idle.at = "idle"  BY DEF Steady, TypeOK, Slots, Idle
<1>1. PICK k, a, x : Enter(r, k, a, x)
  BY DEF Ask, EmailLogin, AskPassword, SetStatus, SetDriver, Forgot, Login, Present, AskRow
<1>2. req[r] = Idle /\ \A q \in Slots \ {r} : req'[q] = req[q]  BY <1>0, <1>1, EnterBegins DEF Begins
<1>3. ASSUME Proves(r)  PROVE \A q \in Reqs : Proves(q)
  BY <1>2, <1>3, ProvesNothing DEF Slots
<1>4. codes \in [Reqs -> {"none", "fresh", "used", "expired"}]  BY DEF Steady, TypeOK
<1>5. CASE SetDriver(r)
  <2>1. Begins(r, "driver", "done", NULL)  BY <1>0, <1>5, EnterBegins DEF SetDriver
  <2>2. \A q \in Reqs \ {r} : codes'[q] # "fresh"  BY <1>5 DEF SetDriver
  <2>3. Renewed  BY <1>0, <1>5, <2>1, <2>2 DEF Renewed, Begins, SetDriver
  <2>4. Proves(r)  BY <1>0, <2>1, <2>2 DEF Proves, Begins
  <2> QED  BY <1>3, <2>3, <2>4
<1>6. CASE Forgot(r)
  <2>1. Begins(r, "forgot", "clear", NULL) /\ UNCHANGED <<links, codes>>
    BY <1>0, <1>6, EnterBegins DEF Forgot, credentials
  <2>2. Proves(r)  BY <1>0, <2>1 DEF Proves, Begins
  <2> QED  BY <1>3, <2>1, <2>2 DEF Renewed
<1>7. CASE Present(r)
  <2>1. UNCHANGED <<links, codes>>  BY <1>7 DEF Present, credentials
  <2>2. PICK q \in Reqs :
          /\ req[q].at = "done"
          /\ \/ req[q].kind = "forgot" /\ Enter(r, "reset", IF links[q] = "fresh" THEN "set" ELSE "done", q)
             \/ /\ req[q].kind \in {"login", "driver"}
                /\ Enter(r, "verify", IF codes[q] = "fresh" THEN "spend" ELSE "done", q)
    BY <1>7 DEF Present, Sent
  <2>3. CASE req[q].kind = "forgot" /\ Enter(r, "reset", IF links[q] = "fresh" THEN "set" ELSE "done", q)
    <3>1. Begins(r, "reset", IF links[q] = "fresh" THEN "set" ELSE "done", q)  BY <1>0, <2>3, EnterBegins
    <3>2. Proves(r)  BY <1>0, <2>2, <2>3, <3>1 DEF Proves, Begins
    <3> QED  BY <1>3, <2>1, <3>2 DEF Renewed
  <2>4. CASE /\ req[q].kind \in {"login", "driver"}
             /\ Enter(r, "verify", IF codes[q] = "fresh" THEN "spend" ELSE "done", q)
    <3>1. Begins(r, "verify", IF codes[q] = "fresh" THEN "spend" ELSE "done", q)  BY <1>0, <2>4, EnterBegins
    <3>2. Proves(r)  BY <1>0, <2>2, <2>4, <3>1 DEF Proves, Begins
    <3> QED  BY <1>3, <2>1, <3>2 DEF Renewed
  <2> QED  BY <2>2, <2>3, <2>4
<1>8. CASE EmailLogin(r) \/ AskPassword(r) \/ SetStatus(r) \/ Login(r) \/ AskRow(r)
  <2>1. UNCHANGED <<links, codes>>  BY <1>8 DEF EmailLogin, AskPassword, SetStatus, Login, AskRow, credentials
  <2>2. \E c \in {"email", "google", "mobile", "change", "status", "login", "remove", "erase", "others", "block", "unblock"} :
           \E b, y : Enter(r, c, b, y)
    BY <1>8 DEF EmailLogin, AskPassword, SetStatus, Login, AskRow
  <2>3. req'[r].kind \notin {"verify", "reset", "driver", "forgot"}  BY <1>0, <2>2, EnterBegins DEF Begins
  <2> QED  BY <1>2, <1>3, <2>1, <2>3, ProvesNothing DEF Renewed
<1> QED  BY <1>5, <1>6, <1>7, <1>8 DEF Ask

\* Every step is about codes and links in this way.
LEMMA ProofSteps ==
  ASSUME Steady, Made, [Next]_vars
  PROVE  Renewed /\ \A q \in Reqs : Proves(q)
<1>1. ASSUME UNCHANGED <<links, codes>>, \A q \in Reqs : Proves(q)  PROVE Renewed  BY <1>1 DEF Renewed
<1>2. CASE UNCHANGED <<links, codes, req>>  BY <1>1, <1>2, ProvesNothing
<1>3. ASSUME NEW q \in Reqs, Expire(q)  PROVE Renewed /\ \A x \in Reqs : Proves(x)
  <2>1. links \in [Reqs -> {"none", "fresh", "used", "expired", "deleted"}]
        /\ codes \in [Reqs -> {"none", "fresh", "used", "expired"}]
    BY DEF Steady, TypeOK
  <2>2. Renewed  BY <1>3, <2>1 DEF Expire, Renewed
  <2>3. req' = req  BY <1>3 DEF Expire
  <2> QED  BY <2>2, <2>3, ProvesNothing
<1>4. ASSUME NEW p \in Phones, Sync(p) \/ \E r \in Reqs : Register(r, p)  PROVE Renewed /\ \A x \in Reqs : Proves(x)
  <2>1. UNCHANGED <<links, codes>>  BY <1>4 DEF Sync, Register, credentials
  <2>2. req' = req \/ \E s \in Slots, k \in {"sync", "register"} : \E a, x : Enter(s, k, a, x)
    BY <1>4 DEF Sync, Register, Slots
  <2>3. req \in [Slots -> Request]  BY DEF Steady, TypeOK
  <2>4. ASSUME NEW s \in Slots, NEW k \in {"sync", "register"}, NEW a, NEW x, Enter(s, k, a, x)
        PROVE \A q \in Reqs : Proves(q)
    <3>1. Begins(s, k, a, x)  BY <2>3, <2>4, EnterBegins
    <3> QED  BY <3>1, ProvesNothing DEF Begins, Slots
  <2>5. \A q \in Reqs : Proves(q)  BY <2>2, <2>4, ProvesNothing
  <2> QED  BY <1>1, <2>1, <2>5
<1>5. ASSUME NEW p \in Phones, SignIn(p) \/ Upgrade(p) \/ Hear(p) \/ Miss(p)
      PROVE  Renewed /\ \A x \in Reqs : Proves(x)
  BY <1>2, <1>5 DEF SignIn, Upgrade, Hear, Miss, credentials
<1>6. CASE UNCHANGED vars  BY <1>2, <1>6 DEF vars, credentials
<1> QED  BY <1>3, <1>4, <1>5, <1>6, ProofServes, ProofAsks DEF Next

\* What has been made stays made by its request, and what is looked up was sent.
LEMMA MadeNext ==
  ASSUME Steady, Made, [Next]_vars
  PROVE  Made'
<1>0. Steady' /\ Flow /\ Requests /\ Requests' /\ Renewed /\ \A q \in Reqs : Proves(q)
  BY SteadyNext, ProofSteps DEF Steady
<1>1. \A q \in Reqs : q \in Slots  BY DEF Slots
<1>2. ASSUME NEW q \in Reqs, req[q].kind \in Credential
      PROVE  /\ req'[q].kind = req[q].kind /\ req'[q].of = req[q].of
             /\ req[q].at = "done" => req'[q] = req[q]
             /\ req[q].at \in {"send", "done"} => req'[q].at \in {"send", "done"}
  <2>1. req[q].at = "send" => req'[q].at \in {"send", "done"}
    BY <1>0, <1>1, <1>2, NullAssumption DEF Flow, Taken, Onward, Idle
  <2> QED  BY <1>0, <1>1, <1>2, <2>1, Lasting
<1>3. \A q \in Reqs : links'[q] # "none" => req'[q].kind = "forgot" /\ req'[q].at \in {"send", "done"}
  BY <1>0, <1>2 DEF Renewed, Made, Credential
<1>4. \A q \in Reqs : codes'[q] # "none" => \/ req'[q].kind = "login" /\ req'[q].at \in {"send", "done"}
                                            \/ req'[q].kind = "driver"
  BY <1>0, <1>2 DEF Renewed, Made, Credential
<1>5. ASSUME NEW r \in Reqs, req'[r].kind \in {"reset", "verify"}
      PROVE  req[r] = Idle \/ (req[r].kind = req'[r].kind /\ req'[r].of = req[r].of)
  <2>1. \/ req'[r] = req[r] \/ Taken(r) \/ Onward(r)
        \/ (req[r].kind \notin Credential /\ req'[r] = Idle)
    BY <1>0, <1>1 DEF Flow
  <2>2. req'[r] # Idle  BY <1>5, NullAssumption DEF Idle, Credential
  <2> QED  BY <2>1, <2>2 DEF Taken, Onward
<1>6. \A q \in Reqs : req[q].at = "done" => req'[q] = req[q]
  BY <1>0, <1>1, <1>2, Standing
<1>7. \A r \in Reqs : req'[r].kind = "reset" =>
        req'[r].of \in Reqs /\ req'[req'[r].of].kind = "forgot" /\ req'[req'[r].of].at = "done"
  BY <1>0, <1>5, <1>6 DEF Proves, Made
<1>8. \A r \in Reqs : req'[r].kind = "verify" =>
        req'[r].of \in Reqs /\ req'[req'[r].of].kind \in {"login", "driver"} /\ req'[req'[r].of].at = "done"
  BY <1>0, <1>5, <1>6 DEF Proves, Made
<1> QED  BY <1>3, <1>4, <1>7, <1>8 DEF Made

\* What is spent stays spent.
LEMMA SpentNext ==
  ASSUME Steady, ProofsInv, [Next]_vars
  PROVE  Spent'
<1>0. Steady' /\ Flow /\ Requests /\ Requests' /\ Renewed /\ \A q \in Reqs : Proves(q)
  BY SteadyNext, ProofSteps DEF Steady, ProofsInv
<1>1. \A q \in Reqs : q \in Slots  BY DEF Slots
<1>2. Made /\ Spent  BY DEF ProofsInv
\* What is done stands still, and is before none that had begun.
<1>3. \A q \in Reqs : req[q].at = "done" => req'[q] = req[q]
  BY <1>0, <1>1, Lasting, Standing
<1>4. ASSUME NEW q \in Reqs, req[q].at = "done"
      PROVE  (codes'[q] = "fresh" => codes[q] = "fresh") /\ (links'[q] = "fresh" => links[q] = "fresh")
  BY <1>0, <1>4 DEF Renewed
\* A request of kind k was idle, or was it already; who is idle now is of no kind.
<1>5. ASSUME NEW r \in Reqs, req'[r].kind \in {"verify", "reset", "driver", "forgot"}
      PROVE  \/ Taken(r)
             \/ req'[r] = req[r] /\ req[r].kind = req'[r].kind
             \/ Onward(r) /\ req[r].kind = req'[r].kind
  <2>1. \/ req'[r] = req[r] \/ Taken(r) \/ Onward(r)
        \/ (req[r].kind \notin Credential /\ req'[r] = Idle)
    BY <1>0, <1>1 DEF Flow
  <2>2. req'[r] # Idle  BY <1>5, NullAssumption DEF Idle, Credential
  <2> QED  BY <2>1, <2>2 DEF Onward
<1>6. \A q \in Slots : req[q].before \subseteq Reqs /\ \A x \in req[q].before : req[x].at = "done"
  BY <1>0, Standing
<1>7. NULL # "ok"  BY NullAssumption, Names
<1>8. ASSUME NEW q \in Reqs, Served(q)'
      PROVE  IF req'[q].kind = "verify" THEN codes'[req'[q].of] # "fresh" ELSE links'[req'[q].of] # "fresh"
  <2>0. req'[q].kind \in {"verify", "reset"} /\ req'[q].out = "ok"  BY <1>8 DEF Served
  <2>1. CASE Taken(q)  BY <1>7, <2>0, <2>1 DEF Taken
  <2>2. CASE req'[q] = req[q]
    <3>1. Served(q)  BY <2>0, <2>2 DEF Served
    <3> QED  BY <1>2, <1>4, <2>0, <2>2, <3>1 DEF Made, Spent
  <2>3. CASE Onward(q) /\ req[q].kind = req'[q].kind
    <3>1. Staged(req[q])  BY <1>0, <1>1 DEF Requests
    <3>2. req[q].at = (IF req[q].kind = "verify" THEN "spend" ELSE "set")
      BY <2>0, <2>3, <3>1, NullAssumption DEF Onward, Staged, Passes, Idle, Credential
    <3> QED  BY <1>0, <2>0, <2>3, <3>2 DEF Proves, Onward
  <2> QED  BY <1>5, <2>0, <2>1, <2>2, <2>3
<1>9. ASSUME NEW d \in Reqs, NEW x \in Reqs, req'[d].kind = "driver", x \in req'[d].before
      PROVE  codes'[x] # "fresh"
  <2>1. CASE Taken(d)
    <3>1. x # d  BY <1>0, <1>1, <1>9, Standing DEF Requests
    <3> QED  BY <1>0, <1>9, <2>1, <3>1 DEF Proves, Taken
  <2>2. CASE req[d].kind = "driver" /\ req'[d].before = req[d].before
    BY <1>1, <1>2, <1>4, <1>6, <1>9, <2>2 DEF Spent
  <2> QED  BY <1>5, <1>9, <2>1, <2>2 DEF Onward
<1>10. ASSUME NEW r \in Reqs, NEW q \in Reqs,
              req'[r].kind = "forgot", req'[r].at \in {"link", "send", "done"}, q \in req'[r].before
       PROVE  links'[q] # "fresh"
  <2>1. CASE Taken(r)  BY <1>0, <1>10, <2>1 DEF Proves, Taken
  <2>2. CASE req[r].kind = "forgot" /\ req'[r].before = req[r].before
    <3>1. Staged(req[r])  BY <1>0, <1>1 DEF Requests
    <3>2. req[r].at \in {"clear", "link", "send", "done"}
      BY <2>2, <3>1, NullAssumption DEF Staged, Passes, Idle, Credential
    <3>3. CASE req[r].at = "clear"  BY <1>0, <1>10, <3>3 DEF Proves
    <3>4. CASE req[r].at # "clear"  BY <1>1, <1>2, <1>4, <1>6, <1>10, <2>2, <3>2, <3>4 DEF Spent
    <3> QED  BY <3>3, <3>4
  <2> QED  BY <1>5, <1>10, <2>1, <2>2 DEF Onward
<1>11. ASSUME NEW r \in Reqs, req'[r].kind \in {"verify", "reset"},
              req'[r].at \in {"spend", "set"} \/ req'[r].out = "ok"
       PROVE  /\ \A q \in req'[r].before : ~(Served(q)' /\ req'[q].of = req'[r].of)
              /\ req'[r].kind = "verify" =>
                   \A d \in req'[r].before : ~(req'[d].kind = "driver" /\ req'[r].of \in req'[d].before)
  <2>1. CASE Taken(r)
    <3>1. req'[r].at \in {"spend", "set"}  BY <1>7, <1>11, <2>1 DEF Taken
    <3>2. Staged(req'[r])  BY <1>0, <1>1 DEF Requests, Staged, Passes
    <3>3. req'[r].at = (IF req'[r].kind = "verify" THEN "spend" ELSE "set")
      BY <1>11, <3>1, <3>2, NullAssumption DEF Staged, Passes, Idle, Credential
    <3> DEFINE x == req'[r].of
    <3>4. /\ x \in Reqs
          /\ req'[r].kind = "verify" => codes[x] = "fresh" /\ req[x].kind \in {"login", "driver"}
          /\ req'[r].kind = "reset" => links[x] = "fresh" /\ req[x].kind = "forgot"
      BY <1>0, <1>11, <2>1, <3>3 DEF Proves, Taken
    <3>5. ASSUME NEW q \in req'[r].before  PROVE q \in Reqs /\ req[q].at = "done" /\ req'[q] = req[q]
      BY <1>3, <2>1, <3>5 DEF Taken
    <3>6. ASSUME NEW q \in req'[r].before, Served(q)', req'[q].of = x  PROVE FALSE
      <4>1. Served(q) /\ req[q].of = x /\ q \in Reqs  BY <3>5, <3>6 DEF Served
      <4>2. req[q].kind = "verify" => codes[x] # "fresh" /\ req[x].kind \in {"login", "driver"}
        BY <1>2, <4>1 DEF Made, Spent
      <4>3. req[q].kind = "reset" => links[x] # "fresh" /\ req[x].kind = "forgot"
        BY <1>2, <4>1 DEF Made, Spent
      <4> QED  BY <1>11, <3>4, <4>1, <4>2, <4>3 DEF Served
    <3>7. ASSUME req'[r].kind = "verify", NEW d \in req'[r].before, req'[d].kind = "driver", x \in req'[d].before
          PROVE  FALSE
      <4>1. d \in Reqs /\ req[d].kind = "driver" /\ x \in req[d].before  BY <3>5, <3>7
      <4> QED  BY <1>2, <3>4, <3>7, <4>1 DEF Spent
    <3> QED  BY <3>6, <3>7
  <2>2. CASE req[r].kind = req'[r].kind /\ (req'[r] = req[r] \/ Onward(r))
    <3>1. req'[r].before = req[r].before /\ req'[r].of = req[r].of  BY <2>2 DEF Onward
    <3>2. req[r].at \in {"spend", "set"} \/ req[r].out = "ok"
      <4>1. CASE req'[r] = req[r]  BY <1>11, <4>1
      <4>2. CASE Onward(r)
        <5>1. Staged(req[r])  BY <1>0, <1>1 DEF Requests
        <5> QED  BY <1>11, <2>2, <4>2, <5>1, NullAssumption DEF Onward, Staged, Passes, Idle, Credential
      <4> QED  BY <2>2, <4>1, <4>2
    <3>3. ASSUME NEW q \in req[r].before  PROVE q \in Reqs /\ req'[q] = req[q]
      BY <1>1, <1>3, <1>6, <3>3
    <3>4. /\ \A q \in req[r].before : ~(Served(q) /\ req[q].of = req[r].of)
          /\ req[r].kind = "verify" => \A d \in req[r].before : ~(req[d].kind = "driver" /\ req[r].of \in req[d].before)
      BY <1>2, <1>11, <2>2, <3>2 DEF Spent
    <3> QED  BY <2>2, <3>1, <3>3, <3>4 DEF Served
  <2> QED  BY <1>5, <1>11, <2>1, <2>2
<1> QED  BY <1>8, <1>9, <1>10, <1>11 DEF Spent, Served

\* What serves is not spent, and what a later request for a link has cleared does not work.
LEMMA ProofsHold == Steady /\ ProofsInv => ProofsServeOnce
<1> SUFFICES ASSUME Steady, ProofsInv  PROVE ProofsServeOnce
  OBVIOUS
<1>1. Requests /\ Made /\ Spent /\ \A q \in Reqs : q \in Slots  BY DEF Steady, ProofsInv, Slots
<1>2. ASSUME NEW r \in Reqs, Served(r)
      PROVE  /\ \A q \in req[r].before : ~(Served(q) /\ req[q].of = req[r].of)
             /\ req[r].kind = "verify" =>
                  \A d \in req[r].before : ~(req[d].kind = "driver" /\ req[r].of \in req[d].before)
  BY <1>1, <1>2 DEF Served, Spent
<1>3. ASSUME NEW q \in Reqs, NEW r \in Reqs, links[q] = "fresh", links[r] = "fresh"  PROVE q \notin req[r].before
  <2>1. req[r].kind = "forgot" /\ req[r].at \in {"send", "done"}  BY <1>1, <1>3 DEF Made
  <2> QED  BY <1>1, <1>3, <2>1 DEF Spent
<1> QED  BY <1>2, <1>3 DEF ProofsServeOnce

\* No code or link has been made yet.
LEMMA ProofsInit == Init => ProofsInv
<1> SUFFICES ASSUME Init  PROVE ProofsInv
  OBVIOUS
<1>1. \A q \in Reqs : links[q] = "none" /\ codes[q] = "none"  BY DEF Init
<1>2. \A q \in Reqs : req[q].kind = NULL  BY DEF Init, Idle, Slots
<1>3. NULL \notin {"verify", "reset", "driver", "forgot"}  BY NullAssumption DEF Credential
<1> QED  BY <1>1, <1>2, <1>3 DEF ProofsInv, Made, Spent, Served

\* verifyOtp() and resetPassword() look a code or link up and mark it in two steps: still, what has
\* served a request serves none that begins after it has ended, nor does a code that an
\* administrator's credentials have replaced; and of two links that work at once neither was made
\* before the other was asked for.
THEOREM ProofsRight == Spec => []ProofsServeOnce
<1>1. Init => Steady /\ ProofsInv  BY SteadyInit, ProofsInit
<1>2. Steady /\ ProofsInv /\ [Next]_vars => (Steady /\ ProofsInv)'
  BY SteadyNext, MadeNext, SpentNext DEF ProofsInv
<1>3. Steady /\ ProofsInv => ProofsServeOnce  BY ProofsHold
<1> QED  BY <1>1, <1>2, <1>3, PTL DEF Spec

-----------------------------------------------------------------------------
(* A phone keeps its row.                                                  *)

\* What a step may do to row i.
RowKept(i) ==
  /\ rows'[i] = Gone => \E r \in Reqs : Removes(r, i)
  /\ rows'[i] # Gone /\ rows'[i].dev # rows[i].dev => \E r \in Reqs : Merges(r, i)
  /\ rows'[i] # Gone /\ rows[i].blocked /\ ~rows'[i].blocked => \E r \in Reqs : Unblocks(r, i)

\* Removals, blocks and merges are not what a phone's sync does.
LEMMA RowRequests ==
  ASSUME Requests, NEW r \in Slots, req[r].at \in {"delete", "mark", "merge"}
  PROVE  /\ r \in Reqs
         /\ req[r].at = "delete" => req[r].kind \in {"remove", "erase", "others"}
         /\ req[r].at = "mark" => req[r].kind \in {"block", "unblock"}
<1>1. Staged(req[r]) /\ req[r] # Idle  BY DEF Requests, Idle
<1>2. /\ req[r].kind \in {"remove", "erase", "others", "block", "unblock", "register"}
      /\ req[r].at = "delete" => req[r].kind \in {"remove", "erase", "others"}
      /\ req[r].at = "mark" => req[r].kind \in {"block", "unblock"}
  BY <1>1 DEF Staged, Passes, OfPhone
<1>3. NULL \notin {"remove", "erase", "others", "block", "unblock", "register"}  BY NullAssumption DEF OfDevices
<1> QED  BY <1>2, <1>3 DEF Requests, Slots

\* The actions on rows, one after the other.
LEMMA RowsServed ==
  ASSUME Steady, NEW r \in Slots, UpdateRow(r) \/ DropOrphans(r) \/ Merge(r) \/ Create(r) \/ DeleteRows(r) \/ MarkRow(r),
         NEW i \in Live, rows[i].dev # NULL
  PROVE  RowKept(i)
<1>1. /\ Requests /\ req \in [Slots -> Request] /\ rows \in [Rows -> Row \cup {NULL, Gone}] /\ mix \in Mixes
      /\ \A j \in Live : j \in Rows /\ rows[j] \in Row
  BY LiveRows DEF Steady, TypeOK
<1>2. PICK x \in Row : x = rows[i]  BY <1>1
<1>3. x # Gone /\ x # NULL  BY <1>1, RowFields
<1>4. ASSUME rows'[i] = rows[i]  PROVE RowKept(i)  BY <1>2, <1>3, <1>4 DEF RowKept
<1>5. CASE UpdateRow(r) /\ ~UNCHANGED rows
  <2>1. PICK j, m : j = req[r].row /\ m = mix.model[req[r].of]  OBVIOUS
  <2>2. rows' = [rows EXCEPT ![j].like = m] /\ j \in Live  BY <1>5, <2>1 DEF UpdateRow
  <2>3. CASE j = i
    <3>1. PICK y : y = [x EXCEPT !.like = m]  OBVIOUS
    <3>2. y.dev = x.dev /\ y.blocked = x.blocked  BY <3>1 DEF Row
    <3>3. rows'[i] = y  BY <1>1, <1>2, <2>2, <2>3, <3>1
    <3>4. y # Gone
      <4>1. m \in {mix.model[p] : p \in Phones}
        BY <1>1, <1>5, <2>1 DEF UpdateRow, OfPhone, Requests, About
      <4>2. y \in Row  BY <3>1, <4>1 DEF Row
      <4> QED  BY <1>1, <4>2, RowFields
    <3> QED  BY <1>2, <3>2, <3>3, <3>4 DEF RowKept
  <2>4. CASE j # i  BY <1>1, <1>4, <2>2, <2>4
  <2> QED  BY <2>3, <2>4
<1>6. CASE DropOrphans(r)
  <2>1. i \notin Legacy  BY DEF Legacy
  <2> QED  BY <1>1, <1>4, <1>6, <2>1 DEF DropOrphans
<1>7. CASE Merge(r) /\ ~UNCHANGED rows
  <2>1. PICK j, p, m : j = req[r].row /\ p = req[r].of /\ m = mix.model[req[r].of]  OBVIOUS
  <2>2. rows' = [rows EXCEPT ![j] = [rows[j] EXCEPT !.dev = p, !.like = m]]  BY <1>7, <2>1 DEF Merge
  <2>3. CASE j = i
    <3>1. r \in Reqs /\ req[r].at = "merge"  BY <1>1, <1>7, RowRequests DEF Merge
    <3>2. req'[r] = Idle  BY <1>1, <1>7, FreeLeaves DEF Merge, Leaves
    <3>3. Merges(r, i)  BY <2>1, <2>3, <3>1, <3>2 DEF Merges
    <3>4. PICK y : y = [x EXCEPT !.dev = p, !.like = m]  OBVIOUS
    <3>5. y.blocked = x.blocked  BY <3>4 DEF Row
    <3>6. rows'[i] = y  BY <1>1, <1>2, <2>2, <2>3, <3>4
    <3>7. rows'[i] # Gone
      <4>1. rows'[i] \in Row
        <5>1. p \in Phones /\ m \in {mix.model[q] : q \in Phones}
          BY <1>1, <1>7, <2>1 DEF Merge, OfPhone, Requests, About
        <5>2. [x EXCEPT !.dev = p] \in Row  BY <5>1 DEF Row
        <5>3. [[x EXCEPT !.dev = p] EXCEPT !.like = m] \in Row  BY <5>1, <5>2 DEF Row
        <5>4. [[x EXCEPT !.dev = p] EXCEPT !.like = m] = y  BY <3>4 DEF Row
        <5> QED  BY <3>6, <5>3, <5>4
      <4> QED  BY <1>1, <4>1, RowFields
    <3> QED  BY <1>2, <3>1, <3>3, <3>5, <3>6, <3>7 DEF RowKept
  <2>4. CASE j # i  BY <1>1, <1>4, <2>2, <2>4
  <2> QED  BY <2>3, <2>4
<1>8. CASE Create(r) /\ ~UNCHANGED rows
  <2>1. PICK j \in NextRow : \E y : rows' = [rows EXCEPT ![j] = y]  BY <1>8 DEF Create
  <2>2. rows[j] = NULL  BY <2>1 DEF NextRow
  <2>3. j # i  BY <1>2, <1>3, <2>2
  <2> QED  BY <1>1, <1>4, <2>1, <2>3
<1>9. CASE DeleteRows(r)
  <2>1. rows'[i] = Gone \/ rows'[i] = rows[i]  BY <1>1, <1>9 DEF DeleteRows
  <2>2. CASE rows'[i] # rows[i]
    <3>1. r \in Reqs /\ req[r].at = "delete"  BY <1>1, <1>9, RowRequests DEF DeleteRows
    <3>2. req'[r] = Idle  BY <1>1, <1>9, FreeLeaves DEF DeleteRows, Leaves
    <3>3. req[r].of = i <=> req[r].kind # "others"  BY <1>1, <1>9, <2>2 DEF DeleteRows
    <3> QED  BY <2>1, <2>2, <3>1, <3>2, <3>3 DEF RowKept, Removes
  <2> QED  BY <1>4, <2>1, <2>2
<1>10. CASE MarkRow(r) /\ ~UNCHANGED rows
  <2>1. PICK j, b : j = req[r].of /\ b = (req[r].kind = "block")  OBVIOUS
  <2>2. rows' = [rows EXCEPT ![j].blocked = b] /\ b \in BOOLEAN  BY <1>10, <2>1 DEF MarkRow
  <2>3. CASE j = i
    <3>1. PICK y : y = [x EXCEPT !.blocked = b]  OBVIOUS
    <3>2. y \in Row /\ y.dev = x.dev /\ y.blocked = b  BY <2>2, <3>1 DEF Row
    <3>3. rows'[i] = y  BY <1>1, <1>2, <2>2, <2>3, <3>1
    <3>4. y # Gone  BY <1>1, <3>2, RowFields
    <3>5. r \in Reqs /\ req[r].at = "mark" /\ req[r].kind \in {"block", "unblock"}
      BY <1>1, <1>10, RowRequests DEF MarkRow
    <3>6. req'[r] = Idle  BY <1>1, <1>10, FreeLeaves DEF MarkRow, Leaves
    <3>7. ~b => Unblocks(r, i)  BY <2>1, <2>3, <3>5, <3>6 DEF Unblocks
    <3> QED  BY <1>2, <3>2, <3>3, <3>4, <3>5, <3>7 DEF RowKept
  <2>4. CASE j # i  BY <1>1, <1>4, <2>2, <2>4
  <2> QED  BY <2>3, <2>4
<1> QED  BY <1>4, <1>5, <1>6, <1>7, <1>8, <1>9, <1>10

\* Every step leaves a phone its row, but for those.
LEMMA RowsStep ==
  ASSUME Steady, [Next]_vars, NEW i \in Live, rows[i].dev # NULL
  PROVE  RowKept(i)
<1>1. CASE UNCHANGED rows
  <2>1. rows[i] # Gone  BY DEF Live
  <2> QED  BY <1>1, <2>1 DEF RowKept
<1>2. ASSUME NEW r \in Slots, Serve(r)  PROVE RowKept(i)
  <2>1. CASE UpdateRow(r) \/ DropOrphans(r) \/ Merge(r) \/ Create(r) \/ DeleteRows(r) \/ MarkRow(r)
    BY <2>1, RowsServed
  <2>2. CASE \/ CheckAccess(r) \/ WritePassword(r) \/ MailPassword(r) \/ FailPassword(r) \/ Rollback(r) \/ Activate(r)
             \/ ClearLinks(r) \/ MakeLink(r) \/ MakeCode(r) \/ Send(r) \/ ResetPassword(r) \/ SpendCode(r)
             \/ FindRow(r) \/ FindLegacy(r) \/ TellRows(r)
    BY <1>1, <2>2 DEF CheckAccess, WritePassword, MailPassword, FailPassword, Rollback, Activate, ClearLinks, MakeLink,
                      MakeCode, Send, ResetPassword, SpendCode, FindRow, FindLegacy, TellRows, devices
  <2> QED  BY <1>2, <2>1, <2>2 DEF Serve
<1>3. ASSUME NEW r \in Reqs, Ask(r)  PROVE RowKept(i)
  BY <1>1, <1>3 DEF Ask, EmailLogin, AskPassword, SetStatus, SetDriver, Forgot, Login, Present, AskRow, devices
<1>4. ASSUME NEW q \in Reqs, Expire(q)  PROVE RowKept(i)
  BY <1>1, <1>4 DEF Expire, devices
<1>5. ASSUME NEW p \in Phones,
             Sync(p) \/ SignIn(p) \/ Upgrade(p) \/ Hear(p) \/ Miss(p) \/ \E r \in Reqs : Register(r, p)
      PROVE  RowKept(i)
  BY <1>1, <1>5 DEF Sync, SignIn, Upgrade, Hear, Miss, Register
<1>6. CASE UNCHANGED vars  BY <1>1, <1>6 DEF vars, devices
<1> QED  BY <1>2, <1>3, <1>4, <1>5, <1>6 DEF Next

\* registerMobileDevice(), the removals and the blocks: whatever runs beside them, the row of a phone
\* goes and its block is lifted only by a request to do so, and it changes hands only by a
\* registration that found it before it had an owner.
THEOREM RowsRight == Spec => RowsKept
<1>1. Init => Steady  BY SteadyInit
<1>2. Steady /\ [Next]_vars => Steady'  BY SteadyNext
<1> DEFINE A == \A i \in Live : rows[i].dev # NULL => RowKept(i)
<1>3. Steady /\ [Next]_vars => A  BY RowsStep
<1>4. [A]_vars => [\A i \in Live : rows[i].dev # NULL =>
                     /\ rows'[i] = Gone => \E r \in Reqs : Removes(r, i)
                     /\ rows'[i] # Gone /\ rows'[i].dev # rows[i].dev => \E r \in Reqs : Merges(r, i)
                     /\ rows'[i] # Gone /\ rows[i].blocked /\ ~rows'[i].blocked => \E r \in Reqs : Unblocks(r, i)]_vars
  BY DEF RowKept
<1> HIDE DEF A
<1> QED  BY <1>1, <1>2, <1>3, <1>4, PTL DEF Spec, RowsKept
=============================================================================
