------------------------------ MODULE Accounts ------------------------------
(***************************************************************************)
(* The rows behind every login: accounts.models.User and ParentInvite, and *)
(* the requests that write them.  An operator enrolls a parent, who gets a *)
(* link by text and sets a password through it; accounts are edited by the *)
(* operator, the owner and the admin's form, deactivated, and deleted.     *)
(*                                                                         *)
(* Requests run in threads without a transaction (EnrollParentView's rows  *)
(* are the exception), so each query is an action and a request keeps the  *)
(* copy of the row it read.  save() without update_fields writes the whole *)
(* copy back, and inserts the row again if it has been deleted.  Requests  *)
(* refused before they change anything are left out; so are names, the     *)
(* username among them, permissions, the channel a parent prefers, the     *)
(* child rows, which Rides has, and the pages of Django's admin that add a *)
(* user or set a password.                                                 *)
(***************************************************************************)
EXTENDS Naturals, FiniteSets

CONSTANTS MaxUsers, MaxInvites,  \* bounds on the rows ever created
          Phone, Password, Code, \* Code: what ResetCodes texts to a phone
          Email,
          Handler, None,
          Gone,                  \* in place of a row that was deleted
          Unusable,              \* set_unusable_password()
          Mixes                  \* bounds of one behaviour: the endpoints called, the
                                 \* links created, the e-mail addresses entered, the
                                 \* phone numbers that the admin's form is sent with

\* Keys grow in the order of creation.
User == 1..MaxUsers
Invite == 1..MaxInvites

VARIABLES users,    \* the User table
          invites,  \* the ParentInvite table
          texts,    \* the messages ever queued for Celery
          req,      \* the request that each thread serves
          opened,   \* history: the passwords saved through each invite
          excused,  \* history: the requests with an invite that failed, and where; the
                    \* phone numbers and the accounts that Unchecked says
          mix       \* the bounds of this behaviour

vars == <<users, invites, texts, req, opened, excused, mix>>
tables == <<users, invites, texts, opened, excused>>

Role == {"PARENT", "OPERATOR"}

Row == [role : Role, phone : Phone \cup {None},
        email : Email \cup {None}, active : BOOLEAN, password : Password \cup {Unusable}]

\* "live": unused and within its 48 hours.
InviteRow == [user : User, state : {"live", "used", "expired", "deleted"}]

ASSUME AccountsConstantsOK ==
  /\ MaxUsers \in Nat \ {0} /\ MaxInvites \in Nat \ {0}
  /\ IsFiniteSet(Handler) /\ Handler # {} /\ Phone # {} /\ Password # {}
  /\ None \notin User \cup Phone \cup Email \cup Invite \cup Row \cup InviteRow
  /\ Gone \notin User \cup Row \cup {None}
  /\ Unusable \notin Password
  /\ \A m \in Mixes : m.emails \subseteq Email \cup {None}

Message == [to : Phone \cup Email, what : Invite \cup Code]

Stage == {"idle", "enroll", "invite", "text", "patch", "form", "save", "mark"}

Request == [stage : Stage, u : User \cup {None}, row : Row \cup {None},
            inv : Invite \cup {None}, to : Phone \cup Email \cup {None}]

Idle == [stage |-> "idle", u |-> None, row |-> None, inv |-> None, to |-> None]

NewParentWithPassword(p, e) == [role |-> "PARENT", phone |-> p, email |-> e,
                                active |-> TRUE, password |-> CHOOSE pw \in Password : TRUE]
NewParent(p, e) == [role |-> "PARENT", phone |-> p, email |-> e,
                    active |-> TRUE, password |-> Unusable]

Exists(u) == users[u] \notin {None, Gone}
IsParent(u) == Exists(u) /\ users[u].role = "PARENT"
SharesPhone(p) == {u \in User : IsParent(u) /\ users[u].phone = p}

\* The key of the next row of a table.
IsNext(table, k) == table[k] = None /\ \A j \in DOMAIN table : j < k => table[j] # None

OldPassword == CHOOSE pw \in Password : TRUE
OldPhone == CHOOSE p \in Phone : TRUE

\* One parent who signed up long ago with invite 1, and nobody else.  "A handful of real
\* rows" have no phone number (views.py:195).
Init ==
  /\ users \in {[u \in User |-> IF u = 1 THEN [NewParent(p, None) EXCEPT !.password = OldPassword]
                                 ELSE None] : p \in {OldPhone, None}}
  /\ invites = [i \in Invite |-> IF i = 1 THEN [user |-> 1, state |-> "used"] ELSE None]
  /\ opened = [i \in Invite |-> IF i = 1 THEN 1 ELSE 0]
  /\ texts = {}
  /\ req = [h \in Handler |-> Idle]
  /\ excused = {}
  /\ mix \in Mixes

\* A request of kind k arrives, and is left as r by its first call.
Begin(h, k, r) ==
  /\ k \in mix.calls
  /\ req[h] = Idle
  /\ req' = [req EXCEPT ![h] = r]
  /\ UNCHANGED mix

\* The request in stage s goes on as r.
Go(h, s, r) ==
  /\ req[h].stage = s
  /\ req' = [req EXCEPT ![h] = r]
  /\ UNCHANGED mix

CreateInvite(u, i) ==
  /\ IsNext(invites, i) /\ i <= mix.links
  /\ invites' = [invites EXCEPT ![i] = [user |-> u, state |-> "live"]]

-----------------------------------------------------------------------------
\* EnrollParentView, ParentViewSet.resend_invite, OperatorViewSet.perform_create.

\* filter(phone_number=..., role=PARENT).first(), which orders by key.
FirstParentNever(p) == None
FirstParent(p) ==
  IF SharesPhone(p) = {} THEN None
  ELSE CHOOSE u \in SharesPhone(p) : \A v \in SharesPhone(p) : u <= v

EnrollLookup(h, p) ==
  /\ Begin(h, "enroll", [Idle EXCEPT !.stage = "enroll", !.u = FirstParent(p), !.to = p])
  /\ UNCHANGED tables

\* A known parent just gets the child: no invite and no text.
EnrollKnown(h) ==
  /\ req[h].u # None
  /\ Go(h, "enroll", Idle)
  /\ UNCHANGED tables

\* The transaction that creates the parent and the invite.
EnrollNew(h, u, i, e) ==
  /\ req[h].u = None
  /\ IsNext(users, u)
  /\ users' = [users EXCEPT ![u] = NewParent(req[h].to, e)]
  /\ CreateInvite(u, i)
  /\ Go(h, "enroll", [req[h] EXCEPT !.stage = "text", !.u = u, !.inv = i])
  /\ UNCHANGED <<texts, opened, excused>>

\* delay_on_commit, after the commit: outside a transaction it queues at once.
SendTextForgotten(h) == Go(h, "text", Idle) /\ UNCHANGED tables
SendText(h) ==
  /\ Go(h, "text", Idle)
  /\ texts' = texts \cup {[to |-> req[h].to, what |-> req[h].inv]}
  /\ UNCHANGED <<users, invites, opened, excused>>

ResendRead(h, u) ==
  /\ IsParent(u) /\ users[u].phone # None
  /\ Begin(h, "resend", [Idle EXCEPT !.stage = "invite", !.u = u, !.to = users[u].phone])
  /\ UNCHANGED tables

ResendCreate(h, i) ==
  /\ Go(h, "invite", [req[h] EXCEPT !.stage = "text", !.inv = i])
  /\ Exists(req[h].u)
  /\ CreateInvite(req[h].u, i)
  /\ UNCHANGED <<users, texts, opened, excused>>

\* With a password the operator is done; without one, a link goes by text or else by
\* mail, or nowhere.
OperatorAddress(p, e) == IF p # None THEN p ELSE e
CreateOperator(h, u, i, p, e, pw) ==
  /\ IsNext(users, u)
  /\ users' = [users EXCEPT ![u] = [role |-> "OPERATOR", phone |-> p, email |-> e,
                                    active |-> TRUE, password |-> pw]]
  /\ \/ pw # Unusable /\ UNCHANGED invites /\ Begin(h, "operator", Idle)
     \/ /\ pw = Unusable /\ CreateInvite(u, i)
        /\ Begin(h, "operator",
                 IF OperatorAddress(p, e) = None THEN Idle
                 ELSE [Idle EXCEPT !.stage = "text", !.u = u, !.inv = i,
                                   !.to = OperatorAddress(p, e)])
  /\ UNCHANGED <<texts, opened, excused>>

-----------------------------------------------------------------------------
\* Edits: a copy of the row is read, changed, and saved whole.

\* ParentViewSet's PATCH: get_object, the serializer's validation, save.
PatchRead(h, u) ==
  /\ IsParent(u)
  /\ Begin(h, "patch", [Idle EXCEPT !.stage = "patch", !.u = u, !.row = users[u]])
  /\ UNCHANGED tables

\* The row a PATCH with phone number p saves: is_active is read-only.
PatchedReactivates(row, p) == [row EXCEPT !.phone = p, !.active = TRUE]
Patched(row, p) == [row EXCEPT !.phone = p]
PatchPhone(h, p) ==
  /\ \A v \in User \ {req[h].u} : Exists(v) => users[v].phone # p
  /\ Go(h, "patch", [req[h] EXCEPT !.stage = "save", !.row = Patched(@, p)])
  /\ UNCHANGED tables

\* A PATCH of the rest, e-mail or name.
PatchRest(h, e) ==
  /\ Go(h, "patch", [req[h] EXCEPT !.stage = "save", !.row.email = e])
  /\ UNCHANGED tables

\* MeView.patch, of request.user, which is active.
MePatch(h, u, e) ==
  /\ Exists(u) /\ users[u].active
  /\ Begin(h, "me", [Idle EXCEPT !.stage = "save", !.u = u, !.row = [users[u] EXCEPT !.email = e]])
  /\ UNCHANGED tables

\* ChangePasswordView, with the current password right.
ChangePassword(h, u, pw) ==
  /\ Exists(u) /\ users[u].active /\ users[u].password # Unusable
  /\ Begin(h, "change",
           [Idle EXCEPT !.stage = "save", !.u = u, !.row = [users[u] EXCEPT !.password = pw]])
  /\ UNCHANGED tables

\* The POST of the admin's change form (accounts/admin.py:7).  However long the page was
\* open, and there is no bound on how many are, what the admin sends is what it shows or
\* whatever they typed: any values, none compared with other accounts.  The row is read by
\* the POST itself, and only the password stays as it was read.
AdminRead(h, u) ==
  /\ Exists(u)
  /\ Begin(h, "admin", [Idle EXCEPT !.stage = "form", !.u = u, !.row = users[u]])
  /\ UNCHANGED tables

\* What the form changes and no other endpoint would: a role, and a parent's number that
\* nobody compares with the others'.
Unchecked(u, old, new) ==
  (IF new.role = old.role THEN {} ELSE {<<"role", u>>})
    \cup (IF new.role = "PARENT" /\ new.phone # None /\ (old.role # "PARENT" \/ old.phone # new.phone)
            THEN {<<"phone", new.phone>>} ELSE {})

AdminPost(h, role, p, e, tick) ==
  LET old == req[h].row
      new == [old EXCEPT !.role = role, !.phone = p, !.email = e, !.active = tick]
  IN /\ p \in mix.typed
     /\ Go(h, "form", [req[h] EXCEPT !.stage = "save", !.row = new])
     /\ excused' = excused \cup Unchecked(req[h].u, old, new)
     /\ UNCHANGED <<users, invites, texts, opened>>

\* SetPasswordView: _get_valid_invite, with the user's row in the same query.
FollowLink(h, i, pw) ==
  /\ invites[i] # None /\ invites[i].state = "live"
  /\ LET u == invites[i].user
     IN Begin(h, "link", [Idle EXCEPT !.stage = "save", !.u = u, !.inv = i,
                                      !.row = [users[u] EXCEPT !.password = pw]])
  /\ UNCHANGED tables

\* save() of the whole copy.
Save(h) ==
  /\ LET r == req[h]
     IN /\ users' = [users EXCEPT ![r.u] = r.row]
        /\ \/ /\ r.inv = None
              /\ Go(h, "save", Idle)
              /\ UNCHANGED opened
           \/ /\ r.inv # None
              /\ Go(h, "save", [r EXCEPT !.stage = "mark"])
              /\ opened' = [opened EXCEPT ![r.inv] = @ + 1]
  /\ UNCHANGED <<invites, texts, excused>>

\* invite.save(update_fields=["used_at"]); raises if the row is gone.
Used(row) == IF row.state = "deleted" THEN row ELSE [row EXCEPT !.state = "used"]
MarkUsedForgotten(h) == Go(h, "mark", Idle) /\ UNCHANGED tables
MarkUsed(h) ==
  /\ Go(h, "mark", Idle)
  /\ invites' = [invites EXCEPT ![req[h].inv] = Used(@)]
  /\ UNCHANGED <<users, texts, opened, excused>>

-----------------------------------------------------------------------------
\* Steps that no request of this module is in the middle of.

\* deactivate(), of a parent or an operator: save(update_fields=["is_active"]).
Deactivate(u) ==
  /\ "deactivate" \in mix.calls
  /\ Exists(u)
  /\ users' = [users EXCEPT ![u].active = FALSE]
  /\ UNCHANGED <<invites, texts, req, opened, excused, mix>>

\* The admin deletes a user; the invites go with it.
Delete(u) ==
  /\ "delete" \in mix.calls
  /\ Exists(u)
  /\ users' = [users EXCEPT ![u] = Gone]
  /\ invites' = [i \in Invite |-> IF invites[i] # None /\ invites[i].user = u
                                    THEN [user |-> u, state |-> "deleted"] ELSE invites[i]]
  /\ UNCHANGED <<texts, req, opened, excused, mix>>

\* 48 hours pass.
Expire(i) ==
  /\ "link" \in mix.calls
  /\ invites[i] # None /\ invites[i].state = "live"
  /\ invites' = [invites EXCEPT ![i].state = "expired"]
  /\ UNCHANGED <<users, texts, req, opened, excused, mix>>

\* An exception or a restart ends a request; what it has done stays.  Bound: at each
\* stage, one request with the same invite fails.
Fail(h) ==
  /\ req[h] # Idle
  /\ <<req[h].stage, req[h].inv>> \notin excused
  /\ req' = [req EXCEPT ![h] = Idle]
  /\ excused' = excused \cup {<<req[h].stage, i>> : i \in {req[h].inv} \ {None}}
  /\ UNCHANGED <<users, invites, texts, opened, mix>>

\* What VerifyResetCodeView and ForgotPasswordView do to these tables (ResetCodes).
IssueInvite(u, i) ==
  /\ Exists(u)
  /\ CreateInvite(u, i)
  /\ UNCHANGED <<users, texts, req, opened, excused, mix>>

TextCode(p, c) ==
  /\ texts' = texts \cup {[to |-> p, what |-> c]}
  /\ UNCHANGED <<users, invites, req, opened, excused, mix>>

-----------------------------------------------------------------------------
Arrive(h) ==
  \/ \E p \in Phone : EnrollLookup(h, p)
  \/ \E u \in User : ResendRead(h, u) \/ PatchRead(h, u) \/ AdminRead(h, u)
  \/ \E u \in User, e \in mix.emails : MePatch(h, u, e)
  \/ \E u \in User, pw \in Password : ChangePassword(h, u, pw)
  \/ \E i \in Invite, pw \in Password : FollowLink(h, i, pw)
  \/ \E u \in User, i \in Invite, p \in Phone \cup {None}, e \in mix.emails,
        pw \in Password \cup {Unusable} : CreateOperator(h, u, i, p, e, pw)

Serve(h) ==
  \/ EnrollKnown(h) \/ SendText(h) \/ Save(h) \/ MarkUsed(h)
  \/ \E e \in mix.emails :
       PatchRest(h, e) \/ \E u \in User, i \in Invite : EnrollNew(h, u, i, e)
  \/ \E i \in Invite : ResendCreate(h, i)
  \/ \E p \in Phone : PatchPhone(h, p)
  \/ \E role \in Role, p \in Phone \cup {None}, e \in mix.emails, tick \in BOOLEAN :
       AdminPost(h, role, p, e, tick)

AccountStep ==
  \/ \E h \in Handler : Arrive(h) \/ Serve(h) \/ Fail(h)
  \/ \E u \in User : Deactivate(u) \/ Delete(u)
  \/ \E i \in Invite : Expire(i)

Next ==
  \/ AccountStep
  \/ \E u \in User, i \in Invite : IssueInvite(u, i)
  \/ \E p \in Phone, c \in Code : TextCode(p, c)

Spec == Init /\ [][Next]_vars

-----------------------------------------------------------------------------
TypeOK ==
  /\ users \in [User -> Row \cup {None, Gone}]
  /\ invites \in [Invite -> InviteRow \cup {None}]
  /\ texts \subseteq Message
  /\ req \in [Handler -> Request]
  /\ opened \in [Invite -> Nat]
  /\ excused \subseteq (Stage \X Invite) \cup ({"role"} \X User)
                       \cup ({"phone"} \X Phone)
  /\ mix \in Mixes

\* A parent has a password only because one was set through a link made for that very
\* account, whatever copies of the row are saved late: an operator "never" writes it
\* (serializers.py:108), and a change of password needs one to start from.  Accounts whose
\* role the admin changed may have been an operator's.
PasswordsCameByLinks ==
  \A u \in User : IsParent(u) /\ users[u].password # Unusable /\ <<"role", u>> \notin excused =>
    \E i \in Invite : invites[i] # None /\ invites[i].user = u /\ opened[i] > 0

\* views.py:292 calls a link single-use.  It is read, used and marked in three steps, so
\* requests that overlap may each set a password with it, but never more of them than
\* there are threads, unless a request failed before it marked the link.
LinksSetFewPasswords ==
  \A i \in Invite : <<"mark", i>> \notin excused => opened[i] <= Cardinality(Handler)

\* Nothing in the table makes a parent's phone number unique, and the admin's form checks
\* nothing.  But where it never set a number, the operator's endpoints, which check, let no
\* more parents share it than requests run at a time, whatever copies are saved late.
FewShareAPhone ==
  \A p \in Phone : <<"phone", p>> \notin excused =>
    Cardinality(SharesPhone(p)) <= Cardinality(Handler)

\* Every parent without a password has had a link queued, is about to, or is left over
\* from an enrollment that failed between its commit and the queue; unless the admin made
\* a parent of an account that was none.
ParentsGetALink ==
  \A u \in User : IsParent(u) /\ users[u].password = Unusable /\ <<"role", u>> \notin excused =>
    \E i \in Invite :
      /\ invites[i] # None /\ invites[i].user = u
      /\ \/ \E m \in texts : m.what = i
         \/ \E h \in Handler : req[h].stage = "text" /\ req[h].inv = i
         \/ <<"text", i>> \in excused

\* views.py:132, 174: deactivate() removes access.  An account that lost it, deactivated
\* or deleted, gets it back only by the save of a copy; and a copy says active only if
\* the row did when it was read, or the admin ticked the box.
AccessReturnsByOldCopy ==
  [][/\ \A u \in User :
          users[u] # None /\ (users[u] = Gone \/ ~users[u].active)
            /\ users'[u] # Gone /\ users'[u].active
          => \E h \in Handler : req[h].stage = "save" /\ req[h].u = u /\ req[h].row.active
     /\ \A h \in Handler :
          req'[h].row # None /\ req'[h].row.active
            /\ (req[h].row = None \/ ~req[h].row.active)
          => req[h].stage = "form" \/ users[req'[h].u].active]_vars
=============================================================================
