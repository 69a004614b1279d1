------------------------------- MODULE Templates -------------------------------
(***************************************************************************)
(* The texts that users keep for their chats, personal ones and those of a *)
(* company group (src/src/message-templates/message-templates.service.ts). *)
(* A template belongs to an external id, not to the row of a user, and     *)
(* what TMS says (UserDirectory) may give a user another role or id, or    *)
(* the id of somebody else: a driver and an employee may have the same.    *)
(*                                                                         *)
(* Title and text are left out, and so is the paging of the lists.  An     *)
(* action is a piece of a request between two awaits.                      *)
(***************************************************************************)
EXTENDS Naturals, Sequences, FiniteSets, Functions

CONSTANTS
  Mixes,     \* users with their first roles and external ids, and the requests looked at
  NULL

VARIABLES
  ext,       \* the external id of each user, or NULL
  roles,     \* his role
  template,  \* rows of message_templates: ext, type, group; by, moved: history
  req,       \* requests being served
  trespass,  \* history: templates changed by someone who never saw them
  todo, mix

vars == <<ext, roles, template, req, trespass, todo, mix>>

-----------------------------------------------------------------------------
Without(f, x) == Restrict(f, DOMAIN f \ {x})
With(f, x, v) == [y \in DOMAIN f \cup {x} |-> IF y = x THEN v ELSE f[y]]
Take(c, kinds) == c \in todo /\ c.kind \in kinds /\ todo' = todo \ {c}
Live == {i \in DOMAIN template : template[i] # NULL}
At(c, at) == c \in DOMAIN req /\ req[c].at = at
Answer(c) == req' = Without(req, c)

\* isCompanyCreatorRole()
Creators == {"ADMINISTRATOR", "EXPEDITE_MANAGER", "TRACKING_TL", "RECRUITER_TL"}

\* managerCompanyGroup()
ManagerGroup(role) ==
  CASE role = "EXPEDITE_MANAGER" -> "Expedite" [] role = "TRACKING_TL" -> "Tracking" [] role = "RECRUITER_TL" -> "HR" [] OTHER -> NULL

\* buildCompanyListWhere(): managers see their own, their people those of the group.
CompanyListed(role, x, t) ==
  \/ role = "ADMINISTRATOR"
  \/ ManagerGroup(role) # NULL /\ x # NULL /\ t.ext = x /\ t.group = ManagerGroup(role)
  \/ role = "RECRUITER" /\ t.group = "HR"
  \/ role \in {"DISPATCHER", "DISPATCHER_TL"} /\ t.group = "Expedite"
  \/ role \in {"NIGHTSHIFT_TRACKING", "MORNING_TRACKING", "TRACKING"} /\ t.group = "Tracking"

\* listForUser(), both scopes, for role and id x.
Listed(role, x, t) == IF t.type = "personal" THEN x # NULL /\ t.ext = x /\ t.group = NULL ELSE CompanyListed(role, x, t)

\* Mutant: the creator's role is enough to change a company template.
MayUpdateRole(role, x, t) == IF t.type = "personal" THEN role = "ADMINISTRATOR" \/ t.ext = x ELSE role \in Creators

\* The guards of upsertForUser() for a row that is there, and those of deleteForUser().
MayUpdate(role, x, t) ==
  \/ role = "ADMINISTRATOR"
  \/ t.ext = x /\ (t.type = "personal" \/ (role \in Creators /\ t.group = ManagerGroup(role)))

MayDelete(role, x, t) ==
  \/ role = "ADMINISTRATOR"
  \/ /\ x # NULL /\ t.ext = x
     /\ t.type = "company" => role \in Creators /\ ManagerGroup(role) # NULL /\ t.group = ManagerGroup(role)

\* A request: what it has read (role, ext, row); history: the ids its user had, and the groups its
\* template was in, at any time since it began.
Group(i) == IF i \in Live THEN {template[i].group} ELSE {}
Serving(c, at) ==
  [at |-> at, role |-> roles[c.user], ext |-> NULL, row |-> NULL, group |-> NULL, had |-> {ext[c.user]}, groups |-> Group(c.id)]

\* Somebody else's template: at no time since the request began was it his to change, in the role
\* he had then.
Foreign(c) ==
  LET role == req[c].role
  IN /\ role # "ADMINISTRATOR"
     /\ \/ template[c.id].ext \notin req[c].had
        \/ template[c.id].type = "company" /\ (role \notin Creators \/ ManagerGroup(role) \notin req[c].groups)
Trespass(c) == trespass' = IF c.id \in Live /\ Foreign(c) THEN trespass \cup {c.id} ELSE trespass

-----------------------------------------------------------------------------
\* validateJwtUserFromPayload(): the guard reads the role, by which the handler goes to its end.
Admit(c) ==
  /\ Take(c, {"upsert", "delete"})
  /\ req' = With(req, c, Serving(c, IF c.kind = "upsert" THEN "upsert" ELSE "row"))
  /\ UNCHANGED <<ext, roles, template, trespass, mix>>

\* upsertForUser(): the user's id comes first; whoever has none cannot save.
Upsert(c) ==
  /\ At(c, "upsert")
  /\ IF ext[c.user] = NULL THEN Answer(c)
     ELSE req' = [req EXCEPT ![c].at = IF c.id = NULL THEN "create" ELSE "find", ![c].ext = ext[c.user]]
  /\ UNCHANGED <<ext, roles, template, trespass, todo, mix>>

\* A row stays personal, or stays with the company; an administrator may give it another group.
UpsertFind(c) ==
  /\ At(c, "find")
  /\ IF c.id \in Live /\ MayUpdate(req[c].role, req[c].ext, template[c.id]) /\ c.type \in {NULL, template[c.id].type}
     THEN req' = [req EXCEPT ![c].at = "update",
                             ![c].group = IF template[c.id].type = "company" /\ req[c].role = "ADMINISTRATOR" THEN c.group ELSE NULL]
     ELSE Answer(c)
  /\ UNCHANGED <<ext, roles, template, trespass, todo, mix>>

UpsertWrite(c) ==
  /\ At(c, "update")
  /\ Trespass(c)
  /\ LET group == IF c.id \notin Live \/ req[c].group = NULL THEN NULL ELSE req[c].group
     IN IF group = NULL THEN Answer(c) /\ UNCHANGED template
        ELSE /\ template' = [template EXCEPT ![c.id] = [template[c.id] EXCEPT !.group = group, !.moved = @ \/ group # template[c.id].group]]
             /\ req' = [r \in DOMAIN req \ {c} |-> IF r.id = c.id THEN [req[r] EXCEPT !.groups = @ \cup {group}] ELSE req[r]]
  /\ UNCHANGED <<ext, roles, todo, mix>>

\* History: he who writes has still the id, and for the company the role, that he writes with.
StillAuthor(c) == ext[c.user] = req[c].ext /\ (c.type = "company" => roles[c.user] = req[c].role)

\* A new one: personal, or of the group that goes with the role; an administrator names it.
UpsertCreate(c) ==
  /\ At(c, "create")
  /\ LET role == req[c].role
         group == IF c.type # "company" THEN NULL ELSE IF role = "ADMINISTRATOR" THEN c.group ELSE ManagerGroup(role)
     IN template' = IF c.type = "company" /\ (role \notin Creators \/ group = NULL) THEN template
                    ELSE Append(template, [ext |-> req[c].ext, type |-> IF c.type = NULL THEN "personal" ELSE c.type, group |-> group,
                                           by |-> IF StillAuthor(c) THEN c.user ELSE NULL, moved |-> FALSE])
  /\ req' = [r \in DOMAIN req \ {c} |-> IF r.id = Len(template) + 1 THEN [req[r] EXCEPT !.groups = @ \cup Group(r.id)'] ELSE req[r]]
  /\ UNCHANGED <<ext, roles, trespass, todo, mix>>

\* deleteForUser(): the row, then the user, then the delete.
Delete(c) ==
  /\ At(c, "row")
  /\ IF c.id \in Live THEN req' = [req EXCEPT ![c].at = "user", ![c].row = template[c.id]] ELSE Answer(c)
  /\ UNCHANGED <<ext, roles, template, trespass, todo, mix>>
DeleteUser(c) ==
  /\ At(c, "user")
  /\ IF MayDelete(req[c].role, ext[c.user], req[c].row) THEN req' = [req EXCEPT ![c].at = "delete"] ELSE Answer(c)
  /\ UNCHANGED <<ext, roles, template, trespass, todo, mix>>
DeleteRow(c) ==
  /\ At(c, "delete")
  /\ Trespass(c)
  /\ template' = IF c.id \in Live THEN [template EXCEPT ![c.id] = NULL] ELSE template
  /\ Answer(c)
  /\ UNCHANGED <<ext, roles, todo, mix>>

\* A webhook or an import gives a user another external id or role (UserDirectory).  History:
\* whoever gets another id, or for the company another role, is no more an author.
Disowned(c, t) == t.by = c.user /\ (c.ext # ext[c.user] \/ (t.type = "company" /\ c.role # roles[c.user]))

Identify(c) ==
  /\ Take(c, {"identify"})
  /\ ext' = [ext EXCEPT ![c.user] = c.ext]
  /\ roles' = [roles EXCEPT ![c.user] = c.role]
  /\ req' = [r \in DOMAIN req |-> IF r.user = c.user THEN [req[r] EXCEPT !.had = @ \cup {c.ext}] ELSE req[r]]
  /\ template' = [i \in DOMAIN template |-> IF i \in Live /\ Disowned(c, template[i]) THEN [template[i] EXCEPT !.by = NULL] ELSE template[i]]
  /\ UNCHANGED <<trespass, mix>>

-----------------------------------------------------------------------------
Init ==
  /\ mix \in Mixes
  /\ ext = mix.ext /\ roles = mix.role /\ template = mix.template
  /\ req = <<>> /\ trespass = {}
  /\ todo = mix.calls

Next ==
  \/ \E c \in todo : Admit(c) \/ Identify(c)
  \/ \E c \in DOMAIN req : \/ Upsert(c) \/ UpsertFind(c) \/ UpsertWrite(c) \/ UpsertCreate(c)
                        \/ Delete(c) \/ DeleteUser(c) \/ DeleteRow(c)

Spec == Init /\ [][Next]_vars

-----------------------------------------------------------------------------
\* Type correctness of the rows and the requests.
TypeOK ==
  /\ \A i \in Live : /\ template[i].type \in {"personal", "company"} /\ template[i].ext # NULL
                     /\ template[i].group = NULL <=> template[i].type = "personal"
  /\ \A c \in DOMAIN req : req[c].at \in {"upsert", "find", "update", "create", "row", "user", "delete"}

\* Nobody but an administrator changes or deletes a template that at no time since his request
\* began was in a list of his own.
NoTrespass == trespass = {}

\* Lists, updates and deletes go by the same rule as the creation: who wrote a template and kept
\* his id, and for one of the company his role, finds it in his list and may change and delete it,
\* unless it was moved to another group.
AuthorsList ==
  \A i \in Live : LET t == template[i]  role == roles[t.by]  x == ext[t.by]
                  IN t.by # NULL /\ ~t.moved => Listed(role, x, t) /\ MayUpdate(role, x, t) /\ MayDelete(role, x, t)

=============================================================================
