--------------------------- MODULE AccountsProofs ---------------------------
(***************************************************************************)
(* Theorems about Accounts for every number of accounts, links and         *)
(* threads, and every set of endpoints called.                             *)
(***************************************************************************)
EXTENDS Accounts, WellFoundedInduction, TLAPS

\* What is known of a request by its stage.
Proper(q) ==
  /\ q.stage = "enroll" => q.to \in Phone
  /\ q.stage \in {"invite", "text"} => q.to # None
  /\ q.stage \in {"invite", "patch", "form", "save"} => q.u # None
  /\ q.stage \in {"patch", "form", "save"} => q.row # None
  /\ q.stage \in {"text", "mark"} => q.inv # None
  /\ q.stage \in {"enroll", "invite", "text"} => q.row = None
  /\ q.stage \in {"patch", "form"} => q.inv = None
  /\ q.row # None => q.u # None

\* The invites of a deleted user are deleted with it.
LinksHaveUsers ==
  \A i \in Invite : invites[i] # None /\ invites[i].state # "deleted" => Exists(invites[i].user)

\* The invite that a request holds is one of its user's.
Owned(q) == q.inv # None => invites[q.inv] # None /\ invites[q.inv].user = q.u

TypeInv ==
  /\ TypeOK
  /\ \A h \in Handler : Proper(req[h]) /\ Owned(req[h])
  /\ LinksHaveUsers

\* What no step changes of an invite.
LinksStay ==
  \A i \in Invite : invites[i] # None => invites'[i] # None /\ invites'[i].user = invites[i].user

LEMMA RowTypes ==
  ASSUME TypeInv
  PROVE  /\ \A u \in User : Exists(u) => users[u] \in Row
         /\ \A i \in Invite : invites[i] # None => invites[i] \in InviteRow
         /\ None \notin Row /\ Gone \notin Row
BY AccountsConstantsOK DEF TypeInv, TypeOK, Exists

LEMMA IdleType == Idle \in Request /\ Proper(Idle)
BY DEF Idle, Request, Stage, Proper

LEMMA RequestStep ==
  ASSUME TypeInv, LinksStay, NEW h \in Handler, NEW q \in Request, Proper(q),
         q.inv # None => invites'[q.inv] # None /\ invites'[q.inv].user = q.u,
         req' = [req EXCEPT ![h] = q]
  PROVE  /\ req' \in [Handler -> Request]
         /\ (\A g \in Handler : Proper(req[g]) /\ Owned(req[g]))'
<1>1. \A g \in Handler : req'[g] = IF g = h THEN q ELSE req[g]
  BY DEF TypeInv, TypeOK
<1>2. req' \in [Handler -> Request]
  BY DEF TypeInv, TypeOK
<1>3. ASSUME NEW g \in Handler PROVE Proper(req'[g]) /\ Owned(req[g])'
  <2>1. CASE g = h
    BY <1>1, <2>1 DEF Owned
  <2>2. CASE g # h
    <3>1. Proper(req[g]) /\ Owned(req[g]) /\ req[g].inv \in Invite \cup {None}
      BY DEF TypeInv, TypeOK, Request
    <3> QED
      BY <1>1, <2>2, <3>1 DEF Owned, LinksStay
  <2> QED
    BY <2>1, <2>2
<1> QED
  BY <1>2, <1>3

\* A request ends.
LEMMA RequestEnds ==
  ASSUME TypeInv, LinksStay, NEW h \in Handler, req' = [req EXCEPT ![h] = Idle]
  PROVE  /\ req' \in [Handler -> Request]
         /\ (\A g \in Handler : Proper(req[g]) /\ Owned(req[g]))'
BY IdleType, RequestStep DEF Idle

\* Of the accounts that fit a query, one has the least key.
LEMMA LeastUser ==
  ASSUME NEW S, S \subseteq User, S # {}
  PROVE  \E u \in S : \A v \in S : u <= v
<1>1. User \subseteq Nat
  BY DEF User
<1>2. PICK u \in S : \A v \in S : <<v, u>> \notin OpToRel(<, Nat)
  BY <1>1, WFMin, NatLessThanWellFounded
<1>3. \A v \in S : ~ (v < u)
  BY <1>1, <1>2 DEF OpToRel
<1> QED
  BY <1>1, <1>3

LEMMA FirstParentType ==
  ASSUME NEW p
  PROVE  FirstParent(p) \in User \cup {None}
<1>1. SharesPhone(p) \subseteq User
  BY DEF SharesPhone
<1>2. SharesPhone(p) # {} => FirstParent(p) \in SharesPhone(p)
  BY <1>1, LeastUser DEF FirstParent
<1> QED
  BY <1>1, <1>2 DEF FirstParent

-----------------------------------------------------------------------------
\* Types.

LEMMA InitType == Init => TypeInv
<1> SUFFICES ASSUME Init PROVE TypeInv
  OBVIOUS
<1>1. 1 \in User /\ 1 \in Invite
  BY AccountsConstantsOK DEF User, Invite
<1>2. OldPassword \in Password /\ OldPhone \in Phone
  BY AccountsConstantsOK DEF OldPassword, OldPhone
<1>3. PICK p \in {OldPhone, None} :
        users = [u \in User |-> IF u = 1 THEN [NewParent(p, None) EXCEPT !.password = OldPassword]
                                ELSE None]
  BY DEF Init
<1>4. [NewParent(p, None) EXCEPT !.password = OldPassword] \in Row
  BY <1>2 DEF NewParent, Row, Role
<1>5. users \in [User -> Row \cup {None, Gone}] /\ users[1] \in Row
  BY <1>1, <1>3, <1>4
<1>6. invites \in [Invite -> InviteRow \cup {None}]
  BY <1>1 DEF Init, InviteRow
<1>7. LinksHaveUsers
  BY <1>5, AccountsConstantsOK DEF Init, LinksHaveUsers, Exists
<1>8. TypeOK
  BY <1>5, <1>6, IdleType DEF Init, TypeOK
<1> QED
  BY <1>7, <1>8, IdleType DEF TypeInv, Init, Owned, Idle

LEMMA NewLink ==
  ASSUME TypeInv, NEW u \in User, NEW i \in Invite, CreateInvite(u, i)
  PROVE  /\ invites' \in [Invite -> InviteRow \cup {None}]
         /\ invites'[i] # None /\ invites'[i].user = u
         /\ LinksStay
         /\ \A j \in Invite : j # i => invites'[j] = invites[j]
BY AccountsConstantsOK DEF CreateInvite, IsNext, LinksStay, TypeInv, TypeOK, InviteRow

\* Where accounts stay and links are left alone, links keep their users.
LEMMA LinksKeepUsers ==
  ASSUME TypeInv, invites' = invites, \A u \in User : Exists(u) => Exists(u)'
  PROVE  LinksHaveUsers'
BY DEF TypeInv, TypeOK, InviteRow, LinksHaveUsers

\* A request that begins, or goes on, without a write.
LEMMA ReadTypes ==
  ASSUME TypeInv, NEW h \in Handler, NEW q \in Request, Proper(q), Owned(q),
         req' = [req EXCEPT ![h] = q], UNCHANGED <<tables, mix>>
  PROVE  TypeInv'
<1>1. LinksHaveUsers'
  BY DEF tables, TypeInv, LinksHaveUsers, Exists
<1>2. LinksStay /\ (q.inv # None => invites'[q.inv] # None /\ invites'[q.inv].user = q.u)
  BY DEF LinksStay, Owned, tables
<1> QED
  BY <1>1, <1>2, RequestStep DEF tables, TypeInv, TypeOK

LEMMA UncheckedType ==
  ASSUME NEW u \in User, NEW old, NEW new \in Row
  PROVE  Unchecked(u, old, new) \subseteq ({"role"} \X User) \cup ({"phone"} \X Phone)
<1>1. new.phone # None => new.phone \in Phone
  BY DEF Row
<1> QED
  BY <1>1 DEF Unchecked

LEMMA ArriveTypes ==
  ASSUME TypeInv, NEW h \in Handler, Arrive(h)
  PROVE  TypeInv'
<1>1. ASSUME NEW p \in Phone, EnrollLookup(h, p) PROVE TypeInv'
  <2> DEFINE q == [Idle EXCEPT !.stage = "enroll", !.u = FirstParent(p), !.to = p]
  <2>1. q \in Request /\ Proper(q) /\ Owned(q)
    BY FirstParentType DEF Idle, Request, Stage, Proper, Owned
  <2> HIDE DEF q
  <2> QED
    BY <1>1, <2>1, ReadTypes DEF EnrollLookup, Begin, q
<1>2. ASSUME NEW u \in User, ResendRead(h, u) PROVE TypeInv'
  <2> DEFINE q == [Idle EXCEPT !.stage = "invite", !.u = u, !.to = users[u].phone]
  <2>1. q \in Request /\ Proper(q) /\ Owned(q)
    BY <1>2, RowTypes, AccountsConstantsOK DEF ResendRead, IsParent, Row, Idle, Request, Stage, Proper, Owned
  <2> HIDE DEF q
  <2> QED
    BY <1>2, <2>1, ReadTypes DEF ResendRead, Begin, q
<1>3. ASSUME NEW u \in User, PatchRead(h, u) PROVE TypeInv'
  <2> DEFINE q == [Idle EXCEPT !.stage = "patch", !.u = u, !.row = users[u]]
  <2>1. q \in Request /\ Proper(q) /\ Owned(q)
    BY <1>3, RowTypes, AccountsConstantsOK DEF PatchRead, IsParent, Idle, Request, Stage, Proper, Owned
  <2> HIDE DEF q
  <2> QED
    BY <1>3, <2>1, ReadTypes DEF PatchRead, Begin, q
<1>4. ASSUME NEW u \in User, AdminRead(h, u) PROVE TypeInv'
  <2> DEFINE q == [Idle EXCEPT !.stage = "form", !.u = u, !.row = users[u]]
  <2>1. q \in Request /\ Proper(q) /\ Owned(q)
    BY <1>4, RowTypes, AccountsConstantsOK DEF AdminRead, Idle, Request, Stage, Proper, Owned
  <2> HIDE DEF q
  <2> QED
    BY <1>4, <2>1, ReadTypes DEF AdminRead, Begin, q
<1>5. ASSUME NEW u \in User, NEW e \in mix.emails, MePatch(h, u, e) PROVE TypeInv'
  <2> DEFINE q == [Idle EXCEPT !.stage = "save", !.u = u, !.row = [users[u] EXCEPT !.email = e]]
  <2>1. e \in Email \cup {None}
    BY AccountsConstantsOK DEF TypeInv, TypeOK
  <2>2. [users[u] EXCEPT !.email = e] \in Row
    BY <1>5, <2>1, RowTypes DEF MePatch, Row
  <2>3. q \in Request /\ Proper(q) /\ Owned(q)
    BY <2>2, RowTypes, AccountsConstantsOK DEF Idle, Request, Stage, Proper, Owned
  <2> HIDE DEF q
  <2> QED
    BY <1>5, <2>3, ReadTypes DEF MePatch, Begin, q
<1>6. ASSUME NEW u \in User, NEW pw \in Password, ChangePassword(h, u, pw) PROVE TypeInv'
  <2> DEFINE q == [Idle EXCEPT !.stage = "save", !.u = u, !.row = [users[u] EXCEPT !.password = pw]]
  <2>1. [users[u] EXCEPT !.password = pw] \in Row
    BY <1>6, RowTypes DEF ChangePassword, Row
  <2>2. q \in Request /\ Proper(q) /\ Owned(q)
    BY <2>1, RowTypes, AccountsConstantsOK DEF Idle, Request, Stage, Proper, Owned
  <2> HIDE DEF q
  <2> QED
    BY <1>6, <2>2, ReadTypes DEF ChangePassword, Begin, q
<1>7. ASSUME NEW i \in Invite, NEW pw \in Password, FollowLink(h, i, pw) PROVE TypeInv'
  <2> DEFINE u == invites[i].user
             q == [Idle EXCEPT !.stage = "save", !.u = u, !.inv = i,
                               !.row = [users[u] EXCEPT !.password = pw]]
  <2>1. u \in User /\ Exists(u)
    BY <1>7, RowTypes DEF FollowLink, InviteRow, TypeInv, LinksHaveUsers
  <2>2. [users[u] EXCEPT !.password = pw] \in Row
    BY <2>1, RowTypes DEF Row
  <2>3. q \in Request /\ Proper(q) /\ Owned(q)
    BY <1>7, <2>1, <2>2, RowTypes, AccountsConstantsOK
    DEF FollowLink, Idle, Request, Stage, Proper, Owned
  <2> HIDE DEF q
  <2> QED
    BY <1>7, <2>3, ReadTypes DEF FollowLink, Begin, q
<1>8. ASSUME NEW u \in User, NEW i \in Invite, NEW p \in Phone \cup {None}, NEW e \in mix.emails,
             NEW pw \in Password \cup {Unusable}, CreateOperator(h, u, i, p, e, pw)
      PROVE  TypeInv'
  <2> DEFINE to == OperatorAddress(p, e)
             q == [Idle EXCEPT !.stage = "text", !.u = u, !.inv = i, !.to = to]
             row == [role |-> "OPERATOR", phone |-> p, email |-> e,
                     active |-> TRUE, password |-> pw]
  <2>1. e \in Email \cup {None} /\ to \in Phone \cup Email \cup {None}
    BY AccountsConstantsOK DEF TypeInv, TypeOK, OperatorAddress
  <2>2. row \in Row
    BY <2>1 DEF Row, Role
  <2>3. users' = [users EXCEPT ![u] = row]
    BY <1>8 DEF CreateOperator
  <2>4. users' \in [User -> Row \cup {None, Gone}] /\ \A v \in User : Exists(v) => Exists(v)'
    BY <2>2, <2>3, RowTypes DEF TypeInv, TypeOK, Exists
  <2>5. Exists(u)'
    BY <2>2, <2>3, RowTypes DEF TypeInv, TypeOK, Exists
  <2>6. \/ invites' = invites
        \/ CreateInvite(u, i)
    BY <1>8 DEF CreateOperator
  <2>7. invites' \in [Invite -> InviteRow \cup {None}] /\ LinksHaveUsers' /\ LinksStay
    <3>1. CASE invites' = invites
      BY <3>1, <2>4, LinksKeepUsers DEF TypeInv, TypeOK, LinksStay
    <3>2. CASE CreateInvite(u, i)
      BY <3>2, <2>4, <2>5, NewLink, RowTypes DEF TypeInv, LinksHaveUsers, InviteRow
    <3> QED
      BY <2>6, <3>1, <3>2
  <2>8. to # None => q \in Request /\ Proper(q) /\ q.inv = i /\ q.u = u
    BY <2>1, AccountsConstantsOK DEF Idle, Request, Stage, Proper
  <2>9. req' \in [Handler -> Request] /\ (\A g \in Handler : Proper(req[g]) /\ Owned(req[g]))'
    <3>1. \/ req' = [req EXCEPT ![h] = Idle]
          \/ to # None /\ req' = [req EXCEPT ![h] = q] /\ CreateInvite(u, i)
      BY <1>8 DEF CreateOperator, Begin
    <3> HIDE DEF q, to
    <3> QED
      BY <3>1, <2>7, <2>8, NewLink, RequestEnds, RequestStep
  <2>10. UNCHANGED <<texts, opened, excused, mix>>
    BY <1>8 DEF CreateOperator, Begin
  <2> QED
    BY <2>4, <2>7, <2>9, <2>10 DEF TypeInv, TypeOK
<1> QED
  BY <1>1, <1>2, <1>3, <1>4, <1>5, <1>6, <1>7, <1>8 DEF Arrive


LEMMA ServeTypes ==
  ASSUME TypeInv, NEW h \in Handler, Serve(h)
  PROVE  TypeInv'
<1>0. /\ req[h] \in Request /\ Proper(req[h]) /\ Owned(req[h])
      /\ invites' = invites => LinksStay
  BY DEF TypeInv, TypeOK, LinksStay
<1>1. CASE EnrollKnown(h)
  BY <1>1, IdleType, ReadTypes DEF EnrollKnown, Go, Owned, Idle
<1>2. CASE SendText(h)
  <2>1. [to |-> req[h].to, what |-> req[h].inv] \in Message
    BY <1>0, <1>2 DEF SendText, Go, Request, Proper, Message
  <2>2. LinksHaveUsers'
    BY <1>2 DEF SendText, TypeInv, LinksHaveUsers, Exists
  <2> QED
    BY <1>0, <1>2, <2>1, <2>2, RequestEnds DEF SendText, Go, TypeInv, TypeOK
<1>3. CASE Save(h)
  <2>1. req[h].u \in User /\ req[h].row \in Row
    BY <1>0, <1>3 DEF Save, Go, Request, Proper
  <2>2. users' = [users EXCEPT ![req[h].u] = req[h].row]
    BY <1>3 DEF Save
  <2>3. users' \in [User -> Row \cup {None, Gone}] /\ \A v \in User : Exists(v) => Exists(v)'
    BY <2>1, <2>2, RowTypes DEF TypeInv, TypeOK, Exists
  <2>4. LinksHaveUsers'
    BY <1>3, <2>3, LinksKeepUsers DEF Save
  <2>5. UNCHANGED <<invites, texts, excused, mix>>
    BY <1>3 DEF Save, Go
  <2>6. CASE req[h].inv = None
    BY <1>0, <1>3, <2>3, <2>4, <2>5, <2>6, RequestEnds DEF Save, Go, TypeInv, TypeOK
  <2>7. CASE req[h].inv # None
    <3> DEFINE q == [req[h] EXCEPT !.stage = "mark"]
    <3>1. q \in Request /\ Proper(q) /\ Owned(q)
      BY <1>0, <2>7 DEF Request, Stage, Proper, Owned
    <3>2. req' = [req EXCEPT ![h] = q] /\ opened' = [opened EXCEPT ![req[h].inv] = @ + 1]
      BY <1>3, <2>7 DEF Save, Go
    <3>3. opened' \in [Invite -> Nat]
      BY <1>0, <3>2, <2>7 DEF TypeInv, TypeOK, Request
    <3> HIDE DEF q
    <3> QED
      BY <1>0, <2>3, <2>4, <2>5, <3>1, <3>2, <3>3, RequestStep DEF TypeInv, TypeOK, Owned
  <2> QED
    BY <2>6, <2>7
<1>4. CASE MarkUsed(h)
  <2>1. PICK i \in Invite : i = req[h].inv /\ invites[i] \in InviteRow
    BY <1>0, <1>4, RowTypes DEF MarkUsed, Go, Request, Proper, Owned
  <2>2. /\ Used(invites[i]) \in InviteRow /\ Used(invites[i]).user = invites[i].user
        /\ Used(invites[i]).state # "deleted" => invites[i].state # "deleted"
    BY <2>1 DEF Used, InviteRow
  <2>3. \A j \in Invite : invites'[j] = IF j = i THEN Used(invites[i]) ELSE invites[j]
    BY <1>4, <2>1 DEF MarkUsed, TypeInv, TypeOK
  <2>4. invites' \in [Invite -> InviteRow \cup {None}]
    BY <1>4, <2>1, <2>2 DEF MarkUsed, TypeInv, TypeOK
  <2>5. UNCHANGED <<users, texts, opened, excused, mix>> /\ req' = [req EXCEPT ![h] = Idle]
    BY <1>4 DEF MarkUsed, Go
  <2>6. LinksStay
    BY <2>1, <2>2, <2>3, AccountsConstantsOK DEF LinksStay
  <2>7. LinksHaveUsers'
    BY <2>1, <2>2, <2>3, <2>5, AccountsConstantsOK DEF LinksHaveUsers, Exists, TypeInv
  <2> QED
    BY <2>4, <2>5, <2>6, <2>7, RequestEnds DEF TypeInv, TypeOK
<1>5. ASSUME NEW e \in mix.emails, PatchRest(h, e) PROVE TypeInv'
  <2> DEFINE q == [req[h] EXCEPT !.stage = "save", !.row.email = e]
  <2>1. e \in Email \cup {None} /\ req[h].row \in Row
    BY <1>0, <1>5, AccountsConstantsOK DEF PatchRest, Go, Proper, Request, TypeInv, TypeOK
  <2>2. [req[h].row EXCEPT !.email = e] \in Row
    BY <2>1 DEF Row
  <2>3. q \in Request /\ Proper(q) /\ Owned(q)
    BY <1>0, <1>5, <2>2, AccountsConstantsOK DEF PatchRest, Go, Request, Stage, Proper, Owned
  <2> HIDE DEF q
  <2> QED
    BY <1>5, <2>3, ReadTypes DEF PatchRest, Go, q
<1>6. ASSUME NEW u \in User, NEW i \in Invite, NEW e \in mix.emails, EnrollNew(h, u, i, e)
      PROVE  TypeInv'
  <2> DEFINE row == NewParent(req[h].to, e)
             q == [req[h] EXCEPT !.stage = "text", !.u = u, !.inv = i]
  <2>1. e \in Email \cup {None} /\ req[h].to \in Phone /\ req[h].row = None
    BY <1>0, <1>6, AccountsConstantsOK DEF EnrollNew, Go, Proper, TypeInv, TypeOK
  <2>2. row \in Row
    BY <2>1 DEF NewParent, Row, Role
  <2>3. users' = [users EXCEPT ![u] = row] /\ UNCHANGED <<texts, opened, excused, mix>>
    BY <1>6 DEF EnrollNew, Go
  <2>4. /\ users' \in [User -> Row \cup {None, Gone}] /\ Exists(u)'
        /\ \A v \in User : Exists(v) => Exists(v)'
    BY <2>2, <2>3, RowTypes DEF TypeInv, TypeOK, Exists
  <2>5. CreateInvite(u, i) /\ req' = [req EXCEPT ![h] = q]
    BY <1>6 DEF EnrollNew, Go
  <2>6. q \in Request /\ Proper(q) /\ q.inv = i /\ q.u = u
    BY <1>0, <2>1, AccountsConstantsOK DEF Request, Stage, Proper
  <2>7. LinksHaveUsers'
    BY <2>4, <2>5, NewLink, RowTypes DEF TypeInv, LinksHaveUsers, InviteRow
  <2> HIDE DEF q, row
  <2> QED
    BY <2>3, <2>4, <2>5, <2>6, <2>7, NewLink, RequestStep DEF TypeInv, TypeOK
<1>7. ASSUME NEW i \in Invite, ResendCreate(h, i) PROVE TypeInv'
  <2> DEFINE u == req[h].u
             q == [req[h] EXCEPT !.stage = "text", !.inv = i]
  <2>1. u \in User /\ req[h].to # None /\ req[h].row = None
    BY <1>0, <1>7 DEF ResendCreate, Go, Proper, Request
  <2>2. /\ CreateInvite(u, i) /\ Exists(u) /\ req' = [req EXCEPT ![h] = q]
        /\ UNCHANGED <<users, texts, opened, excused, mix>>
    BY <1>7 DEF ResendCreate, Go
  <2>3. q \in Request /\ Proper(q) /\ q.inv = i /\ q.u = u
    BY <1>0, <2>1, AccountsConstantsOK DEF Request, Stage, Proper
  <2>4. LinksHaveUsers'
    BY <2>1, <2>2, NewLink, RowTypes DEF TypeInv, LinksHaveUsers, InviteRow, Exists
  <2> HIDE DEF q, u
  <2> QED
    BY <2>1, <2>2, <2>3, <2>4, NewLink, RequestStep DEF TypeInv, TypeOK
<1>8. ASSUME NEW p \in Phone, PatchPhone(h, p) PROVE TypeInv'
  <2> DEFINE q == [req[h] EXCEPT !.stage = "save", !.row = Patched(@, p)]
  <2>1. req[h].row \in Row
    BY <1>0, <1>8 DEF PatchPhone, Go, Proper, Request
  <2>2. Patched(req[h].row, p) \in Row
    BY <2>1 DEF Patched, Row
  <2>3. q \in Request /\ Proper(q) /\ Owned(q)
    BY <1>0, <1>8, <2>2, AccountsConstantsOK DEF PatchPhone, Go, Request, Stage, Proper, Owned
  <2> HIDE DEF q
  <2> QED
    BY <1>8, <2>3, ReadTypes DEF PatchPhone, Go, q
<1>9. ASSUME NEW role \in Role, NEW p \in Phone \cup {None}, NEW e \in mix.emails,
             NEW tick \in BOOLEAN, AdminPost(h, role, p, e, tick)
      PROVE  TypeInv'
  <2>1. PICK old : old = req[h].row
    OBVIOUS
  <2>2. PICK new : new = [old EXCEPT !.role = role, !.phone = p, !.email = e, !.active = tick]
    OBVIOUS
  <2>3. PICK q : q = [req[h] EXCEPT !.stage = "save", !.row = new]
    OBVIOUS
  <2>4. /\ req[h].stage = "form" /\ req' = [req EXCEPT ![h] = q]
        /\ excused' = excused \cup Unchecked(req[h].u, old, new)
        /\ UNCHANGED <<users, invites, texts, opened, mix>>
    BY <1>9, <2>1, <2>2, <2>3 DEF AdminPost, Go
  <2>5. old \in Row /\ req[h].u \in User /\ e \in Email \cup {None}
    BY <1>0, <2>1, <2>4, AccountsConstantsOK DEF Request, Proper, TypeInv, TypeOK
  <2>6. new \in Row
    BY <2>2, <2>5 DEF Row, Role
  <2>7. q \in Request /\ Proper(q) /\ q.inv = None
    BY <1>0, <2>3, <2>4, <2>5, <2>6, AccountsConstantsOK DEF Request, Stage, Proper
  <2>8. Unchecked(req[h].u, old, new) \subseteq ({"role"} \X User) \cup ({"phone"} \X Phone)
    BY <2>5, <2>6, UncheckedType
  <2>9. LinksHaveUsers' /\ LinksStay
    BY <1>0, <2>4 DEF TypeInv, LinksHaveUsers, Exists
  <2>10. req' \in [Handler -> Request] /\ (\A g \in Handler : Proper(req[g]) /\ Owned(req[g]))'
    BY <2>4, <2>7, <2>9, RequestStep
  <2> QED
    BY <2>4, <2>8, <2>9, <2>10 DEF TypeInv, TypeOK
<1> QED
  BY <1>1, <1>2, <1>3, <1>4, <1>5, <1>6, <1>7, <1>8, <1>9 DEF Serve

LEMMA OtherTypes ==
  ASSUME TypeInv,
         \/ \E h \in Handler : Fail(h)
         \/ \E u \in User : Deactivate(u) \/ Delete(u)
         \/ \E i \in Invite : Expire(i)
         \/ \E u \in User, i \in Invite : IssueInvite(u, i)
         \/ \E p \in Phone, c \in Code : TextCode(p, c)
  PROVE  TypeInv'
<1>0. /\ LinksStay /\ req' = req => (\A h \in Handler : Proper(req[h]) /\ Owned(req[h]))'
      /\ invites' = invites => LinksStay
  BY DEF TypeInv, TypeOK, Request, Owned, LinksStay
<1>1. ASSUME NEW h \in Handler, Fail(h) PROVE TypeInv'
  <2>1. \A i \in {req[h].inv} \ {None} : <<req[h].stage, i>> \in Stage \X Invite
    BY DEF TypeInv, TypeOK, Request
  <2>2. excused' \subseteq (Stage \X Invite) \cup ({"role"} \X User) \cup ({"phone"} \X Phone)
    BY <1>1, <2>1 DEF Fail, TypeInv, TypeOK
  <2>3. LinksHaveUsers'
    BY <1>1 DEF Fail, TypeInv, LinksHaveUsers, Exists
  <2> QED
    BY <1>0, <1>1, <2>2, <2>3, RequestEnds DEF Fail, TypeInv, TypeOK
<1>2. ASSUME NEW u \in User, Deactivate(u) PROVE TypeInv'
  <2>1. users' = [users EXCEPT ![u].active = FALSE] /\ users[u] \in Row
    BY <1>2, RowTypes DEF Deactivate
  <2>2. [users[u] EXCEPT !.active = FALSE] \in Row
    BY <2>1 DEF Row
  <2>3. users' \in [User -> Row \cup {None, Gone}] /\ \A v \in User : Exists(v) => Exists(v)'
    BY <2>1, <2>2, RowTypes DEF TypeInv, TypeOK, Exists
  <2> QED
    BY <1>0, <1>2, <2>3, LinksKeepUsers DEF Deactivate, TypeInv, TypeOK
<1>3. ASSUME NEW u \in User, Delete(u) PROVE TypeInv'
  <2>1. \A i \in Invite : invites'[i] = IF invites[i] # None /\ invites[i].user = u
                                          THEN [user |-> u, state |-> "deleted"] ELSE invites[i]
    BY <1>3 DEF Delete
  <2>2. [user |-> u, state |-> "deleted"] \in InviteRow
    BY DEF InviteRow
  <2>3. invites' \in [Invite -> InviteRow \cup {None}]
    BY <1>3, <2>2 DEF Delete, TypeInv, TypeOK
  <2>4. LinksStay
    BY <2>1, <2>2, AccountsConstantsOK DEF LinksStay
  <2>5. users' = [users EXCEPT ![u] = Gone]
    BY <1>3 DEF Delete
  <2>6. LinksHaveUsers'
    BY <2>1, <2>5, RowTypes DEF LinksHaveUsers, Exists, TypeInv, TypeOK, InviteRow
  <2> QED
    BY <1>0, <1>3, <2>3, <2>4, <2>5, <2>6 DEF Delete, TypeInv, TypeOK
<1>4. ASSUME NEW i \in Invite, Expire(i) PROVE TypeInv'
  <2>1. invites' = [invites EXCEPT ![i].state = "expired"] /\ invites[i] \in InviteRow
    BY <1>4, RowTypes DEF Expire
  <2>2. [invites[i] EXCEPT !.state = "expired"] \in InviteRow
    BY <2>1 DEF InviteRow
  <2>3. invites' \in [Invite -> InviteRow \cup {None}]
    BY <2>1, <2>2 DEF TypeInv, TypeOK
  <2>4. LinksStay
    BY <2>1, <2>2, AccountsConstantsOK DEF LinksStay, TypeInv, TypeOK, InviteRow
  <2>5. LinksHaveUsers'
    BY <1>4, <2>1, <2>2 DEF Expire, LinksHaveUsers, Exists, TypeInv, TypeOK, InviteRow
  <2> QED
    BY <1>0, <1>4, <2>3, <2>4, <2>5 DEF Expire, TypeInv, TypeOK
<1>5. ASSUME NEW u \in User, NEW i \in Invite, IssueInvite(u, i) PROVE TypeInv'
  <2>1. CreateInvite(u, i) /\ Exists(u)
    BY <1>5 DEF IssueInvite
  <2>2. LinksHaveUsers'
    BY <1>5, <2>1, NewLink, RowTypes DEF IssueInvite, TypeInv, LinksHaveUsers, InviteRow, Exists
  <2> QED
    BY <1>0, <1>5, <2>1, <2>2, NewLink DEF IssueInvite, TypeInv, TypeOK
<1>6. ASSUME NEW p \in Phone, NEW c \in Code, TextCode(p, c) PROVE TypeInv'
  <2>1. [to |-> p, what |-> c] \in Message
    BY DEF Message
  <2>2. LinksHaveUsers'
    BY <1>6 DEF TextCode, TypeInv, LinksHaveUsers, Exists
  <2> QED
    BY <1>0, <1>6, <2>1, <2>2 DEF TextCode, TypeInv, TypeOK
<1> QED
  BY <1>1, <1>2, <1>3, <1>4, <1>5, <1>6

LEMMA StepTypes == TypeInv /\ [Next]_vars => TypeInv'
<1>1. TypeInv /\ UNCHANGED vars => TypeInv'
  BY DEF vars, TypeInv, TypeOK, LinksHaveUsers, Exists, Owned
<1> QED
  BY <1>1, ArriveTypes, ServeTypes, OtherTypes DEF Next, AccountStep

\* Every variable keeps its type.  TypeInv says more: no handler ever takes up a row, an
\* address or a link that its request does not have.
THEOREM TypeCorrect == Spec => []TypeOK
<1>1. TypeInv => TypeOK
  BY DEF TypeInv
<1> QED
  BY <1>1, InitType, StepTypes, PTL DEF Spec

-----------------------------------------------------------------------------
\* Where passwords come from.  A step moves rows and copies of rows in few ways, which
\* the next lemma lists; the invariants below follow from that list alone.

LinkOpened(u) == \E i \in Invite : invites[i] # None /\ invites[i].user = u /\ opened[i] > 0

LinkOnItsWay(u) ==
  \E i \in Invite :
    /\ invites[i] # None /\ invites[i].user = u
    /\ \/ \E m \in texts : m.what = i
       \/ \E h \in Handler : req[h].stage = "text" /\ req[h].inv = i
       \/ <<"text", i>> \in excused

\* The admin changed the role of account u.
Recast(u) == <<"role", u>> \in excused

\* Unless that was changed by hand, copies agree with the row, and with each other once
\* the row is gone, on the role.
Copies ==
  \A h \in Handler : req[h].row # None =>
    /\ users[req[h].u] # None
    /\ \/ Recast(req[h].u)
       \/ /\ Exists(req[h].u) => users[req[h].u].role = req[h].row.role
          /\ \A g \in Handler : req[g].row # None /\ req[g].u = req[h].u
                                  => req[g].row.role = req[h].row.role

\* A row is left alone, created, deactivated, deleted, or replaced by a copy.
RowMoves(u) ==
  \/ users'[u] = users[u]
  \/ /\ users[u] = None /\ users'[u] \in Row
     /\ users'[u].role = "PARENT" => users'[u].password = Unusable /\ LinkOnItsWay(u)'
  \/ Exists(u) /\ users'[u] = [users[u] EXCEPT !.active = FALSE]
  \/ Exists(u) /\ users'[u] = Gone
  \/ \E h \in Handler :
       /\ req[h].stage = "save" /\ req[h].u = u /\ req[h].row # None /\ users'[u] = req[h].row
       /\ req[h].inv # None => LinkOpened(u)'

\* The copy that a request q has once it was r: the same but for columns of no interest
\* here, or a copy of the row as it is, or with the password of a change or of a link.
Kept(q, r) ==
  /\ r.row # None /\ q.u = r.u /\ q.inv = r.inv
  /\ q.row.role = r.row.role /\ q.row.password = r.row.password

Fresh(q) ==
  /\ Exists(q.u) /\ q.row.role = users[q.u].role
  /\ \/ q.row.password = users[q.u].password
     \/ q.row.password # Unusable /\ (users[q.u].password # Unusable \/ q.inv # None)

\* A copy that says active, though the one before did not, was read so or ticked so.
Reactivates(q, r) ==
  q.row # None /\ q.row.active /\ (r.row = None \/ ~r.row.active)
    => r.stage = "form" \/ users[q.u].active

\* Or one with a role that was changed by hand.
Changed(q, r) == r.row # None /\ q.u = r.u /\ <<"role", q.u>> \in excused'

CopyMoves(q, r) ==
  (q.row = None \/ Kept(q, r) \/ Fresh(q) \/ Changed(q, r)) /\ Reactivates(q, r)

Moves ==
  /\ excused \subseteq excused'
  /\ \A u \in User : /\ RowMoves(u)
                     /\ LinkOpened(u) => LinkOpened(u)'
                     /\ LinkOnItsWay(u) => LinkOnItsWay(u)'
  /\ \A h \in Handler : CopyMoves(req'[h], req[h])

\* What a link was is what it is, so only texts, requests and excused matter.
LEMMA WaysStay ==
  ASSUME TypeInv, LinksStay, texts \subseteq texts', excused \subseteq excused',
         \A i \in Invite : opened[i] > 0 => opened'[i] > 0,
         \A h \in Handler : req[h].stage = "text" =>
            \/ req'[h] = req[h]
            \/ \E m \in texts' : m.what = req[h].inv
            \/ <<"text", req[h].inv>> \in excused'
  PROVE  \A u \in User : /\ LinkOpened(u) => LinkOpened(u)'
                         /\ LinkOnItsWay(u) => LinkOnItsWay(u)'
<1>1. ASSUME NEW u \in User, LinkOpened(u) PROVE LinkOpened(u)'
  <2>1. PICK i \in Invite : invites[i] # None /\ invites[i].user = u /\ opened[i] > 0
    BY <1>1 DEF LinkOpened
  <2>2. invites'[i] # None /\ invites'[i].user = u
    BY <2>1 DEF LinksStay
  <2> QED
    BY <2>1, <2>2 DEF LinkOpened
<1>2. ASSUME NEW u \in User, LinkOnItsWay(u) PROVE LinkOnItsWay(u)'
  <2>1. PICK i \in Invite :
          /\ invites[i] # None /\ invites[i].user = u
          /\ \/ \E m \in texts : m.what = i
             \/ \E h \in Handler : req[h].stage = "text" /\ req[h].inv = i
             \/ <<"text", i>> \in excused
    BY <1>2 DEF LinkOnItsWay
  <2>2. invites'[i] # None /\ invites'[i].user = u
    BY <2>1 DEF LinksStay
  <2>3. \/ \E m \in texts' : m.what = i
        \/ \E h \in Handler : req'[h].stage = "text" /\ req'[h].inv = i
        \/ <<"text", i>> \in excused'
    BY <2>1
  <2> QED
    BY <2>2, <2>3 DEF LinkOnItsWay
<1> QED
  BY <1>1, <1>2

LEMMA Unmoved ==
  ASSUME NEW h \in Handler, req'[h] = req[h]
  PROVE  CopyMoves(req'[h], req[h])
BY DEF CopyMoves, Reactivates, Kept

\* A step of one request, which is not about to queue a text, on tables that only gain.
LEMMA RequestMoves ==
  ASSUME TypeInv, LinksStay, texts' = texts, excused \subseteq excused',
         \A i \in Invite : opened[i] > 0 => opened'[i] > 0,
         NEW h \in Handler, NEW q, req' = [req EXCEPT ![h] = q], CopyMoves(q, req[h]),
         req[h].stage = "text" => <<"text", req[h].inv>> \in excused'
  PROVE  /\ \A u \in User : /\ LinkOpened(u) => LinkOpened(u)'
                            /\ LinkOnItsWay(u) => LinkOnItsWay(u)'
         /\ \A g \in Handler : CopyMoves(req'[g], req[g])
<1>1. \A g \in Handler : req'[g] = IF g = h THEN q ELSE req[g]
  BY DEF TypeInv, TypeOK
<1>2. \A g \in Handler : CopyMoves(req'[g], req[g])
  BY <1>1, Unmoved
<1> QED
  BY <1>1, <1>2, WaysStay

LEMMA ReadMoves ==
  ASSUME TypeInv, NEW h \in Handler, NEW q, req' = [req EXCEPT ![h] = q],
         UNCHANGED tables, CopyMoves(q, req[h]), req[h].stage # "text"
  PROVE  Moves
<1>1. LinksStay /\ \A u \in User : RowMoves(u)
  BY DEF tables, LinksStay, RowMoves
<1> QED
  BY <1>1, RequestMoves DEF tables, Moves

\* A new row: an operator's, or a parent's whose link is about to be queued.
LEMMA NewRowMoves ==
  ASSUME NEW u \in User, users[u] = None, NEW row \in Row, users' = [users EXCEPT ![u] = row],
         TypeInv, row.role = "PARENT" => row.password = Unusable /\ LinkOnItsWay(u)'
  PROVE  \A v \in User : RowMoves(v)
<1>1. \A v \in User : users'[v] = IF v = u THEN row ELSE users[v]
  BY DEF TypeInv, TypeOK
<1> QED
  BY <1>1 DEF RowMoves

LEMMA ArriveMoves ==
  ASSUME TypeInv, NEW h \in Handler, Arrive(h)
  PROVE  Moves
<1>0. req[h] = Idle
  BY DEF Arrive, Begin, EnrollLookup, ResendRead, PatchRead, AdminRead, MePatch,
         ChangePassword, FollowLink, CreateOperator
<1>00. req[h].stage # "text"
  BY <1>0 DEF Idle
<1>1. ASSUME NEW p \in Phone, EnrollLookup(h, p) PROVE Moves
  <2> DEFINE q == [Idle EXCEPT !.stage = "enroll", !.u = FirstParent(p), !.to = p]
  <2>1. CopyMoves(q, req[h])
    BY DEF CopyMoves, Reactivates, Idle
  <2> HIDE DEF q
  <2> QED
    BY <1>00, <1>1, <2>1, ReadMoves DEF EnrollLookup, Begin, q
<1>2. ASSUME NEW u \in User, ResendRead(h, u) PROVE Moves
  <2> DEFINE q == [Idle EXCEPT !.stage = "invite", !.u = u, !.to = users[u].phone]
  <2>1. CopyMoves(q, req[h])
    BY DEF CopyMoves, Reactivates, Idle
  <2> HIDE DEF q
  <2> QED
    BY <1>00, <1>2, <2>1, ReadMoves DEF ResendRead, Begin, q
<1>3. ASSUME NEW u \in User, PatchRead(h, u) PROVE Moves
  <2> DEFINE q == [Idle EXCEPT !.stage = "patch", !.u = u, !.row = users[u]]
  <2>1. CopyMoves(q, req[h])
    BY <1>3 DEF PatchRead, IsParent, CopyMoves, Reactivates, Fresh, Idle
  <2> HIDE DEF q
  <2> QED
    BY <1>00, <1>3, <2>1, ReadMoves DEF PatchRead, Begin, q
<1>4. ASSUME NEW u \in User, AdminRead(h, u) PROVE Moves
  <2> DEFINE q == [Idle EXCEPT !.stage = "form", !.u = u, !.row = users[u]]
  <2>1. CopyMoves(q, req[h])
    BY <1>4 DEF AdminRead, CopyMoves, Reactivates, Fresh, Idle
  <2> HIDE DEF q
  <2> QED
    BY <1>00, <1>4, <2>1, ReadMoves DEF AdminRead, Begin, q
<1>5. ASSUME NEW u \in User, NEW e \in mix.emails, MePatch(h, u, e) PROVE Moves
  <2> DEFINE q == [Idle EXCEPT !.stage = "save", !.u = u, !.row = [users[u] EXCEPT !.email = e]]
  <2>1. Exists(u) /\ users[u] \in Row
    BY <1>5, RowTypes DEF MePatch
  <2>2. CopyMoves(q, req[h])
    BY <2>1 DEF CopyMoves, Reactivates, Fresh, Idle, Row
  <2> HIDE DEF q
  <2> QED
    BY <1>00, <1>5, <2>2, ReadMoves DEF MePatch, Begin, q
<1>6. ASSUME NEW u \in User, NEW pw \in Password, ChangePassword(h, u, pw) PROVE Moves
  <2> DEFINE q == [Idle EXCEPT !.stage = "save", !.u = u, !.row = [users[u] EXCEPT !.password = pw]]
  <2>1. Exists(u) /\ users[u] \in Row /\ users[u].password # Unusable
    BY <1>6, RowTypes DEF ChangePassword
  <2>2. CopyMoves(q, req[h])
    BY <2>1, AccountsConstantsOK DEF CopyMoves, Reactivates, Fresh, Idle, Row
  <2> HIDE DEF q
  <2> QED
    BY <1>00, <1>6, <2>2, ReadMoves DEF ChangePassword, Begin, q
<1>7. ASSUME NEW i \in Invite, NEW pw \in Password, FollowLink(h, i, pw) PROVE Moves
  <2> DEFINE u == invites[i].user
             q == [Idle EXCEPT !.stage = "save", !.u = u, !.inv = i,
                               !.row = [users[u] EXCEPT !.password = pw]]
  <2>1. Exists(u) /\ users[u] \in Row
    BY <1>7, RowTypes DEF FollowLink, InviteRow, TypeInv, LinksHaveUsers
  <2>2. CopyMoves(q, req[h])
    BY <2>1, AccountsConstantsOK DEF CopyMoves, Reactivates, Fresh, Idle, Row
  <2> HIDE DEF q
  <2> QED
    BY <1>00, <1>7, <2>2, ReadMoves DEF FollowLink, Begin, q
<1>8. ASSUME NEW u \in User, NEW i \in Invite, NEW p \in Phone \cup {None}, NEW e \in mix.emails,
             NEW pw \in Password \cup {Unusable}, CreateOperator(h, u, i, p, e, pw)
      PROVE  Moves
  <2> DEFINE row == [role |-> "OPERATOR", phone |-> p, email |-> e,
                     active |-> TRUE, password |-> pw]
             q == req'[h]
  <2>1. row \in Row /\ row.role # "PARENT"
    BY AccountsConstantsOK DEF Row, Role, TypeInv, TypeOK
  <2>2. users[u] = None /\ users' = [users EXCEPT ![u] = row] /\ UNCHANGED <<texts, opened, excused>>
    BY <1>8 DEF CreateOperator, IsNext
  <2>3. LinksStay
    BY <1>8, NewLink DEF CreateOperator, LinksStay
  <2>4. req' = [req EXCEPT ![h] = q] /\ q.row = None
    <3> DEFINE told == [Idle EXCEPT !.stage = "text", !.u = u, !.inv = i,
                                    !.to = OperatorAddress(p, e)]
    <3>1. req' = [req EXCEPT ![h] = Idle] \/ req' = [req EXCEPT ![h] = told]
      BY <1>8 DEF CreateOperator, Begin
    <3>2. Idle.row = None /\ told.row = None
      BY DEF Idle
    <3> HIDE DEF told
    <3> QED
      BY <3>1, <3>2 DEF TypeInv, TypeOK
  <2>5. CopyMoves(q, req[h])
    BY <2>4 DEF CopyMoves, Reactivates
  <2>6. \A v \in User : RowMoves(v)
    BY <2>1, <2>2, NewRowMoves
  <2> HIDE DEF q, row
  <2> QED
    BY <1>00, <2>2, <2>3, <2>4, <2>5, <2>6, RequestMoves DEF Moves
<1> QED
  BY <1>1, <1>2, <1>3, <1>4, <1>5, <1>6, <1>7, <1>8 DEF Arrive

LEMMA ServeMoves ==
  ASSUME TypeInv, NEW h \in Handler, Serve(h)
  PROVE  Moves
<1>0. /\ req[h] \in Request /\ Proper(req[h]) /\ Owned(req[h])
      /\ invites' = invites => LinksStay
  BY DEF TypeInv, TypeOK, LinksStay
<1>1. CASE EnrollKnown(h)
  <2>1. CopyMoves(Idle, req[h])
    BY DEF CopyMoves, Reactivates, Idle
  <2> QED
    BY <1>1, <2>1, ReadMoves DEF EnrollKnown, Go
<1>2. CASE SendText(h)
  <2>1. /\ req' = [req EXCEPT ![h] = Idle] /\ UNCHANGED <<users, invites, opened, excused>>
        /\ texts' = texts \cup {[to |-> req[h].to, what |-> req[h].inv]}
    BY <1>2 DEF SendText, Go
  <2>2. \A g \in Handler : req'[g] = IF g = h THEN Idle ELSE req[g]
    BY <2>1 DEF TypeInv, TypeOK
  <2>3. [to |-> req[h].to, what |-> req[h].inv] \in texts'
    BY <2>1
  <2>4. \E m \in texts' : m.what = req[h].inv
    BY <2>3
  <2>5. \A g \in Handler : CopyMoves(req'[g], req[g])
    BY <2>2, Unmoved DEF CopyMoves, Reactivates, Idle
  <2>6. \A u \in User : RowMoves(u)
    BY <2>1 DEF RowMoves
  <2> QED
    BY <1>0, <2>1, <2>2, <2>4, <2>5, <2>6, WaysStay DEF Moves
<1>3. CASE Save(h)
  <2> DEFINE q == req'[h]
  <2>1. PICK u \in User :
          u = req[h].u /\ req[h].row \in Row /\ req[h].stage = "save" /\ req[h].row # None
    BY <1>0, <1>3 DEF Save, Go, Request, Proper
  <2>2. users' = [users EXCEPT ![u] = req[h].row] /\ UNCHANGED <<invites, texts, excused>>
    BY <1>3, <2>1 DEF Save
  <2>3. req' = [req EXCEPT ![h] = q] /\ q \in {Idle, [req[h] EXCEPT !.stage = "mark"]}
    BY <1>3 DEF Save, Go, TypeInv, TypeOK
  <2>4. CopyMoves(q, req[h])
    BY <1>0, <2>1, <2>3 DEF CopyMoves, Reactivates, Kept, Idle, Request
  <2>5. /\ \A i \in Invite : opened[i] > 0 => opened'[i] > 0
        /\ req[h].inv # None => opened'[req[h].inv] > 0
    <3>1. opened \in [Invite -> Nat] /\ req[h].inv \in Invite \cup {None}
      BY <1>0 DEF TypeInv, TypeOK, Request
    <3>2. CASE req[h].inv = None
      BY <1>3, <3>2 DEF Save
    <3>3. CASE req[h].inv # None
      BY <1>3, <3>1, <3>3 DEF Save
    <3> QED
      BY <3>2, <3>3
  <2>6. req[h].inv # None => LinkOpened(u)'
    <3> SUFFICES ASSUME req[h].inv # None PROVE LinkOpened(u)'
      OBVIOUS
    <3>1. PICK i \in Invite : i = req[h].inv
      BY <1>0 DEF Request
    <3>2. invites'[i] # None /\ invites'[i].user = u /\ opened'[i] > 0
      BY <1>0, <2>1, <2>2, <2>5, <3>1 DEF Owned
    <3> QED
      BY <3>2 DEF LinkOpened
  <2>7. \A v \in User : users'[v] = IF v = u THEN req[h].row ELSE users[v]
    BY <2>2 DEF TypeInv, TypeOK
  <2>8. RowMoves(u)
    BY <2>1, <2>6, <2>7 DEF RowMoves
  <2>9. \A v \in User \ {u} : RowMoves(v)
    BY <2>7 DEF RowMoves
  <2>10. \A v \in User : RowMoves(v)
    BY <2>8, <2>9
  <2> HIDE DEF q
  <2> QED
    BY <1>0, <2>1, <2>2, <2>3, <2>4, <2>5, <2>10, RequestMoves DEF Moves
<1>4. CASE MarkUsed(h)
  <2>1. PICK i \in Invite : i = req[h].inv /\ invites[i] \in InviteRow
    BY <1>0, <1>4, RowTypes DEF MarkUsed, Go, Request, Proper, Owned
  <2>2. Used(invites[i]) \in InviteRow /\ Used(invites[i]).user = invites[i].user
    BY <2>1 DEF Used, InviteRow
  <2>3. \A j \in Invite : invites'[j] = IF j = i THEN Used(invites[i]) ELSE invites[j]
    BY <1>4, <2>1 DEF MarkUsed, TypeInv, TypeOK
  <2>4. LinksStay
    BY <2>1, <2>2, <2>3, AccountsConstantsOK DEF LinksStay
  <2>5. CopyMoves(Idle, req[h]) /\ \A u \in User : RowMoves(u)
    BY <1>4 DEF MarkUsed, CopyMoves, Reactivates, Idle, RowMoves
  <2> QED
    BY <1>4, <2>4, <2>5, RequestMoves DEF MarkUsed, Go, Moves
<1>5. ASSUME NEW e \in mix.emails, PatchRest(h, e) PROVE Moves
  <2> DEFINE q == [req[h] EXCEPT !.stage = "save", !.row.email = e]
  <2>1. req[h].row \in Row /\ req[h].row # None
    BY <1>0, <1>5 DEF PatchRest, Go, Proper, Request
  <2>2. CopyMoves(q, req[h])
    BY <1>0, <2>1 DEF CopyMoves, Reactivates, Kept, Request, Row
  <2> HIDE DEF q
  <2> QED
    BY <1>5, <2>2, ReadMoves DEF PatchRest, Go, q
<1>6. ASSUME NEW u \in User, NEW i \in Invite, NEW e \in mix.emails, EnrollNew(h, u, i, e)
      PROVE  Moves
  <2> DEFINE row == NewParent(req[h].to, e)
             q == [req[h] EXCEPT !.stage = "text", !.u = u, !.inv = i]
  <2>1. e \in Email \cup {None} /\ req[h].to \in Phone /\ req[h].row = None /\ req[h].stage = "enroll"
    BY <1>0, <1>6, AccountsConstantsOK DEF EnrollNew, Go, Proper, TypeInv, TypeOK
  <2>2. row \in Row /\ row.password = Unusable
    BY <2>1 DEF NewParent, Row, Role
  <2>3. /\ users[u] = None /\ users' = [users EXCEPT ![u] = row] /\ UNCHANGED <<texts, opened, excused>>
        /\ CreateInvite(u, i) /\ req' = [req EXCEPT ![h] = q]
    BY <1>6 DEF EnrollNew, Go, IsNext
  <2>4. q.stage = "text" /\ q.inv = i /\ q.row = None
    BY <1>0, <2>1 DEF Request
  <2>5. req'[h] = q /\ invites'[i] # None /\ invites'[i].user = u /\ LinksStay
    BY <2>3, NewLink DEF TypeInv, TypeOK
  <2>6. LinkOnItsWay(u)'
    BY <2>4, <2>5 DEF LinkOnItsWay
  <2>7. CopyMoves(q, req[h])
    BY <2>4 DEF CopyMoves, Reactivates
  <2> HIDE DEF q, row
  <2>8. \A v \in User : RowMoves(v)
    BY <2>2, <2>3, <2>6, NewRowMoves
  <2> QED
    BY <2>1, <2>3, <2>5, <2>7, <2>8, RequestMoves DEF Moves
<1>7. ASSUME NEW i \in Invite, ResendCreate(h, i) PROVE Moves
  <2> DEFINE u == req[h].u
             q == [req[h] EXCEPT !.stage = "text", !.inv = i]
  <2>1. u \in User /\ req[h].row = None /\ req[h].stage = "invite"
    BY <1>0, <1>7 DEF ResendCreate, Go, Proper, Request
  <2>2. CreateInvite(u, i) /\ req' = [req EXCEPT ![h] = q] /\ UNCHANGED <<users, texts, opened, excused>>
    BY <1>7 DEF ResendCreate, Go
  <2>3. q.row = None
    BY <1>0, <2>1 DEF Request
  <2>4. CopyMoves(q, req[h]) /\ \A v \in User : RowMoves(v)
    BY <2>2, <2>3 DEF CopyMoves, Reactivates, RowMoves
  <2> HIDE DEF q, u
  <2> QED
    BY <2>1, <2>2, <2>4, NewLink, RequestMoves DEF Moves
<1>8. ASSUME NEW p \in Phone, PatchPhone(h, p) PROVE Moves
  <2> DEFINE q == [req[h] EXCEPT !.stage = "save", !.row = Patched(@, p)]
  <2>1. req[h].row \in Row /\ req[h].row # None
    BY <1>0, <1>8 DEF PatchPhone, Go, Proper, Request
  <2>2. CopyMoves(q, req[h])
    BY <1>0, <2>1 DEF CopyMoves, Reactivates, Kept, Patched, Request, Row
  <2> HIDE DEF q
  <2> QED
    BY <1>8, <2>2, ReadMoves DEF PatchPhone, Go, q
<1>9. ASSUME NEW role \in Role, NEW p \in Phone \cup {None}, NEW e \in mix.emails,
             NEW tick \in BOOLEAN, AdminPost(h, role, p, e, tick)
      PROVE  Moves
  <2>1. PICK old : old = req[h].row
    OBVIOUS
  <2>2. PICK new : new = [old EXCEPT !.role = role, !.phone = p, !.email = e, !.active = tick]
    OBVIOUS
  <2>3. PICK q : q = [req[h] EXCEPT !.stage = "save", !.row = new]
    OBVIOUS
  <2>4. /\ req[h].stage = "form" /\ req' = [req EXCEPT ![h] = q]
        /\ excused' = excused \cup Unchecked(req[h].u, old, new)
        /\ UNCHANGED <<users, invites, texts, opened>>
    BY <1>9, <2>1, <2>2, <2>3 DEF AdminPost, Go
  <2>5. old \in Row /\ req[h].row # None
    BY <1>0, <2>1, <2>4 DEF Request, Proper
  <2>6. q.u = req[h].u /\ q.inv = req[h].inv /\ q.row = new
    BY <1>0, <2>3 DEF Request
  <2>7. new.role = role /\ new.password = old.password
    BY <2>2, <2>5 DEF Row
  <2>8. role = old.role => Kept(q, req[h])
    BY <2>1, <2>5, <2>6, <2>7 DEF Kept
  <2>9. role # old.role => Changed(q, req[h])
    BY <2>4, <2>5, <2>6, <2>7 DEF Changed, Unchecked
  <2>10. CopyMoves(q, req[h])
    BY <2>4, <2>8, <2>9 DEF CopyMoves, Reactivates
  <2>11. LinksStay /\ \A u \in User : RowMoves(u)
    BY <1>0, <2>4 DEF RowMoves
  <2> QED
    BY <2>4, <2>10, <2>11, RequestMoves DEF Moves
<1> QED
  BY <1>1, <1>2, <1>3, <1>4, <1>5, <1>6, <1>7, <1>8, <1>9 DEF Serve

\* A step of no request: the links and passwords that count stay, and so do the copies.
LEMMA ForeignMoves ==
  ASSUME TypeInv, LinksStay, texts \subseteq texts', UNCHANGED <<req, opened, excused>>
  PROVE  /\ \A u \in User : /\ LinkOpened(u) => LinkOpened(u)'
                            /\ LinkOnItsWay(u) => LinkOnItsWay(u)'
         /\ \A g \in Handler : CopyMoves(req'[g], req[g])
<1>1. \A g \in Handler : CopyMoves(req'[g], req[g])
  BY Unmoved
<1> QED
  BY <1>1, WaysStay

LEMMA OtherMoves ==
  ASSUME TypeInv,
         \/ \E h \in Handler : Fail(h)
         \/ \E u \in User : Deactivate(u) \/ Delete(u)
         \/ \E i \in Invite : Expire(i)
         \/ \E u \in User, i \in Invite : IssueInvite(u, i)
         \/ \E p \in Phone, c \in Code : TextCode(p, c)
  PROVE  Moves
<1>0. /\ invites' = invites => LinksStay
      /\ users' = users => \A u \in User : RowMoves(u)
  BY DEF LinksStay, RowMoves
<1>1. ASSUME NEW h \in Handler, Fail(h) PROVE Moves
  <2>1. /\ req' = [req EXCEPT ![h] = Idle] /\ UNCHANGED <<users, invites, texts, opened>>
        /\ excused' = excused \cup {<<req[h].stage, i>> : i \in {req[h].inv} \ {None}}
    BY <1>1 DEF Fail
  <2>2. req[h].stage = "text" => <<"text", req[h].inv>> \in excused'
    <3> SUFFICES ASSUME req[h].stage = "text" PROVE <<"text", req[h].inv>> \in excused'
      OBVIOUS
    <3>1. req[h].inv \in {req[h].inv} \ {None}
      BY DEF TypeInv, Proper
    <3> QED
      BY <2>1, <3>1
  <2>3. CopyMoves(Idle, req[h])
    BY DEF CopyMoves, Reactivates, Idle
  <2> QED
    BY <1>0, <2>1, <2>2, <2>3, RequestMoves DEF Moves
<1>2. ASSUME NEW u \in User, Deactivate(u) PROVE Moves
  <2>1. \A v \in User : users'[v] = IF v = u THEN [users[u] EXCEPT !.active = FALSE] ELSE users[v]
    BY <1>2 DEF Deactivate, TypeInv, TypeOK
  <2>2. \A v \in User : RowMoves(v)
    BY <1>2, <2>1 DEF Deactivate, RowMoves
  <2> QED
    BY <1>0, <1>2, <2>2, ForeignMoves DEF Deactivate, Moves
<1>3. ASSUME NEW u \in User, Delete(u) PROVE Moves
  <2>1. \A i \in Invite : invites'[i] = IF invites[i] # None /\ invites[i].user = u
                                          THEN [user |-> u, state |-> "deleted"] ELSE invites[i]
    BY <1>3 DEF Delete
  <2>2. [user |-> u, state |-> "deleted"] \in InviteRow
    BY DEF InviteRow
  <2>3. LinksStay
    BY <2>1, <2>2, AccountsConstantsOK DEF LinksStay
  <2>4. \A v \in User : users'[v] = IF v = u THEN Gone ELSE users[v]
    BY <1>3 DEF Delete, TypeInv, TypeOK
  <2>5. \A v \in User : RowMoves(v)
    BY <1>3, <2>4 DEF Delete, RowMoves
  <2> QED
    BY <1>3, <2>3, <2>5, ForeignMoves DEF Delete, Moves
<1>4. ASSUME NEW i \in Invite, Expire(i) PROVE Moves
  <2>1. invites' = [invites EXCEPT ![i].state = "expired"] /\ invites[i] \in InviteRow
    BY <1>4, RowTypes DEF Expire
  <2>2. [invites[i] EXCEPT !.state = "expired"] \in InviteRow
    BY <2>1 DEF InviteRow
  <2>3. LinksStay
    BY <2>1, <2>2, AccountsConstantsOK DEF LinksStay, TypeInv, TypeOK, InviteRow
  <2> QED
    BY <1>0, <1>4, <2>3, ForeignMoves DEF Expire, Moves
<1>5. ASSUME NEW u \in User, NEW i \in Invite, IssueInvite(u, i) PROVE Moves
  BY <1>0, <1>5, NewLink, ForeignMoves DEF IssueInvite, Moves
<1>6. ASSUME NEW p \in Phone, NEW c \in Code, TextCode(p, c) PROVE Moves
  BY <1>0, <1>6, ForeignMoves DEF TextCode, Moves
<1> QED
  BY <1>1, <1>2, <1>3, <1>4, <1>5, <1>6

LEMMA StepMoves == TypeInv /\ [Next]_vars => Moves
<1>1. TypeInv /\ UNCHANGED vars => Moves
  <2> SUFFICES ASSUME TypeInv, UNCHANGED vars PROVE Moves
    OBVIOUS
  <2>1. LinksStay /\ \A u \in User : RowMoves(u)
    BY DEF vars, LinksStay, RowMoves
  <2> QED
    BY <2>1, ForeignMoves DEF vars, Moves
<1> QED
  BY <1>1, ArriveMoves, ServeMoves, OtherMoves DEF Next, AccountStep

LEMMA CopiesStay == TypeInv /\ TypeInv' /\ Copies /\ Moves => Copies'
<1> SUFFICES ASSUME TypeInv, TypeInv', Copies, Moves, NEW h \in Handler, req'[h].row # None
             PROVE  /\ users'[req'[h].u] # None
                    /\ \/ Recast(req[h].u)'
                       \/ /\ Exists(req[h].u)' => users'[req'[h].u].role = req'[h].row.role
                          /\ \A g \in Handler : req'[g].row # None /\ req'[g].u = req'[h].u
                                                  => req'[g].row.role = req'[h].row.role
  BY DEF Copies
<1>1. PICK u \in User : u = req'[h].u
  BY DEF TypeInv, TypeOK, Request, Proper
<1>2. \A g \in Handler : req'[g].row # None
                          => Kept(req'[g], req[g]) \/ Fresh(req'[g]) \/ Changed(req'[g], req[g])
  BY DEF Moves, CopyMoves
<1>3. users[u] # None
  BY <1>1, <1>2 DEF Kept, Fresh, Changed, Copies, Exists
<1>4. RowMoves(u)
  BY DEF Moves
<1>5. users'[u] # None
  BY <1>3, <1>4, RowTypes, AccountsConstantsOK DEF RowMoves, Row
<1>6. CASE Recast(u)'
  BY <1>1, <1>5, <1>6 DEF Recast
<1>7. CASE ~Recast(u)'
  <2>1. ~Recast(u)
    BY <1>7 DEF Recast, Moves
  <2>2. \A g \in Handler : req'[g].row # None /\ req'[g].u = u => Kept(req'[g], req[g]) \/ Fresh(req'[g])
    BY <1>2, <1>7 DEF Changed, Recast
  <2>3. Exists(u) => users[u].role = req'[h].row.role
    BY <1>1, <2>1, <2>2 DEF Kept, Fresh, Copies
  <2>4. \A g \in Handler : req[g].row # None /\ req[g].u = u => req[g].row.role = req'[h].row.role
    BY <1>1, <2>1, <2>2 DEF Kept, Fresh, Copies
  <2>5. Exists(u)' => users'[u].role = req'[h].row.role
    <3>1. Exists(u)' <=> users'[u] \notin {None, Gone}
      BY DEF Exists
    <3>2. CASE users'[u] = users[u]
      BY <2>3, <3>1, <3>2 DEF Exists
    <3>3. CASE Exists(u) /\ users'[u] = [users[u] EXCEPT !.active = FALSE]
      BY <2>3, <3>3, RowTypes DEF Row
    <3>4. CASE Exists(u) /\ users'[u] = Gone
      BY <3>1, <3>4
    <3>5. CASE \E g \in Handler : req[g].u = u /\ req[g].row # None /\ users'[u] = req[g].row
      BY <2>4, <3>5
    <3> QED
      BY <1>3, <1>4, <3>2, <3>3, <3>4, <3>5 DEF RowMoves
  <2>6. ASSUME NEW g \in Handler, req'[g].row # None, req'[g].u = u
        PROVE  req'[g].row.role = req'[h].row.role
    <3>1. CASE Kept(req'[g], req[g])
      BY <2>4, <2>6, <3>1 DEF Kept
    <3>2. CASE Fresh(req'[g])
      BY <2>3, <2>6, <3>2 DEF Fresh
    <3> QED
      BY <2>2, <2>6, <3>1, <3>2
  <2> QED
    BY <1>1, <1>5, <2>5, <2>6
<1> QED
  BY <1>6, <1>7

\* The strengthening of PasswordsCameByLinks and of ParentsGetALink: what they say of the
\* rows holds of every copy of one, unless the request is about to open a link itself or
\* the role was changed by hand.
PasswordsOpened ==
  /\ \A u \in User : IsParent(u) /\ users[u].password # Unusable /\ ~Recast(u) => LinkOpened(u)
  /\ \A h \in Handler : req[h].row # None /\ req[h].row.role = "PARENT"
                          /\ req[h].row.password # Unusable /\ req[h].inv = None
                          /\ ~Recast(req[h].u)
                        => LinkOpened(req[h].u)

LinksOnTheirWay ==
  /\ \A u \in User : IsParent(u) /\ users[u].password = Unusable /\ ~Recast(u) => LinkOnItsWay(u)
  /\ \A h \in Handler : req[h].row # None /\ req[h].row.role = "PARENT"
                          /\ req[h].row.password = Unusable /\ ~Recast(req[h].u)
                        => LinkOnItsWay(req[h].u)

LEMMA StepPasswords ==
  ASSUME TypeInv, TypeInv', Copies, Moves, PasswordsOpened
  PROVE  PasswordsOpened'
<1>1. ASSUME NEW u \in User, IsParent(u)', users'[u].password # Unusable, ~Recast(u)'
      PROVE  LinkOpened(u)'
  <2>0. RowMoves(u) /\ ~Recast(u) /\ (LinkOpened(u) => LinkOpened(u)')
    BY <1>1 DEF Moves, Recast
  <2>1. users'[u] \notin {None, Gone} /\ users'[u].role = "PARENT"
    BY <1>1 DEF IsParent, Exists
  <2>2. CASE users'[u] = users[u]
    BY <1>1, <2>0, <2>1, <2>2 DEF PasswordsOpened, IsParent, Exists
  <2>3. CASE Exists(u) /\ users'[u] = [users[u] EXCEPT !.active = FALSE]
    BY <1>1, <2>0, <2>1, <2>3, RowTypes DEF PasswordsOpened, IsParent, Row
  <2>4. ASSUME NEW h \in Handler, req[h].u = u, req[h].row # None, users'[u] = req[h].row,
               req[h].inv # None => LinkOpened(u)'
        PROVE  LinkOpened(u)'
    BY <1>1, <2>0, <2>1, <2>4 DEF PasswordsOpened
  <2> QED
    BY <1>1, <2>0, <2>1, <2>2, <2>3, <2>4 DEF RowMoves
<1>2. ASSUME NEW h \in Handler, req'[h].row # None, req'[h].row.role = "PARENT",
             req'[h].row.password # Unusable, req'[h].inv = None, ~Recast(req[h].u)'
      PROVE  LinkOpened(req[h].u)'
  <2>1. PICK u \in User : u = req'[h].u
    BY <1>2 DEF TypeInv, TypeOK, Request, Proper
  <2>2. (Kept(req'[h], req[h]) \/ Fresh(req'[h])) /\ ~Recast(u)
    BY <1>2, <2>1 DEF Moves, CopyMoves, Changed, Recast
  <2>3. LinkOpened(u)
    BY <1>2, <2>1, <2>2 DEF Kept, Fresh, PasswordsOpened, IsParent
  <2>4. LinkOpened(u)'
    BY <2>3 DEF Moves
  <2> QED
    BY <2>1, <2>4 DEF LinkOpened
<1> QED
  BY <1>1, <1>2 DEF PasswordsOpened

LEMMA StepLinks ==
  ASSUME TypeInv, TypeInv', Copies, Moves, LinksOnTheirWay
  PROVE  LinksOnTheirWay'
<1>1. ASSUME NEW u \in User, IsParent(u)', users'[u].password = Unusable, ~Recast(u)'
      PROVE  LinkOnItsWay(u)'
  <2>0. RowMoves(u) /\ ~Recast(u) /\ (LinkOnItsWay(u) => LinkOnItsWay(u)')
    BY <1>1 DEF Moves, Recast
  <2>1. users'[u] \notin {None, Gone} /\ users'[u].role = "PARENT"
    BY <1>1 DEF IsParent, Exists
  <2>2. CASE users'[u] = users[u]
    BY <1>1, <2>0, <2>1, <2>2 DEF LinksOnTheirWay, IsParent, Exists
  <2>3. CASE Exists(u) /\ users'[u] = [users[u] EXCEPT !.active = FALSE]
    BY <1>1, <2>0, <2>1, <2>3, RowTypes DEF LinksOnTheirWay, IsParent, Row
  <2>4. ASSUME NEW h \in Handler, req[h].u = u, req[h].row # None, users'[u] = req[h].row
        PROVE  LinkOnItsWay(u)'
    BY <1>1, <2>0, <2>1, <2>4 DEF LinksOnTheirWay
  <2> QED
    BY <1>1, <2>0, <2>1, <2>2, <2>3, <2>4 DEF RowMoves
<1>2. ASSUME NEW h \in Handler, req'[h].row # None, req'[h].row.role = "PARENT",
             req'[h].row.password = Unusable, ~Recast(req[h].u)'
      PROVE  LinkOnItsWay(req[h].u)'
  <2>1. PICK u \in User : u = req'[h].u
    BY <1>2 DEF TypeInv, TypeOK, Request, Proper
  <2>2. (Kept(req'[h], req[h]) \/ Fresh(req'[h])) /\ ~Recast(u)
    BY <1>2, <2>1 DEF Moves, CopyMoves, Changed, Recast
  <2>3. LinkOnItsWay(u)
    BY <1>2, <2>1, <2>2 DEF Kept, Fresh, LinksOnTheirWay, IsParent
  <2>4. LinkOnItsWay(u)'
    BY <2>3 DEF Moves
  <2> QED
    BY <2>1, <2>4 DEF LinkOnItsWay
<1> QED
  BY <1>1, <1>2 DEF LinksOnTheirWay

LEMMA InitCopies == Init => Copies /\ PasswordsOpened /\ LinksOnTheirWay
<1> SUFFICES ASSUME Init PROVE Copies /\ PasswordsOpened /\ LinksOnTheirWay
  OBVIOUS
<1>1. \A h \in Handler : req[h].row = None
  BY DEF Init, Idle
<1>2. 1 \in User /\ 1 \in Invite /\ OldPassword \in Password
  BY AccountsConstantsOK DEF User, Invite, OldPassword
<1>3. PICK p \in {OldPhone, None} :
        users = [u \in User |-> IF u = 1 THEN [NewParent(p, None) EXCEPT !.password = OldPassword]
                                ELSE None]
  BY DEF Init
<1>4. \A u \in User : Exists(u) => u = 1 /\ users[u].password # Unusable
  <2> DEFINE first == [NewParent(p, None) EXCEPT !.password = OldPassword]
  <2>1. first.password = OldPassword /\ OldPassword # Unusable
    BY <1>2, AccountsConstantsOK DEF NewParent
  <2>2. \A u \in User : users[u] = IF u = 1 THEN first ELSE None
    BY <1>3
  <2> HIDE DEF first
  <2> QED
    BY <2>1, <2>2 DEF Exists
<1>5. LinkOpened(1)
  <2>1. opened[1] = 1 /\ invites[1] = [user |-> 1, state |-> "used"]
    BY <1>2 DEF Init
  <2>2. invites[1] \in InviteRow
    BY <1>2, <2>1 DEF InviteRow
  <2> QED
    BY <1>2, <2>1, <2>2, AccountsConstantsOK DEF LinkOpened
<1> QED
  BY <1>1, <1>4, <1>5 DEF Copies, PasswordsOpened, LinksOnTheirWay, IsParent

AccountInv == TypeInv /\ Copies /\ PasswordsOpened /\ LinksOnTheirWay

LEMMA InitAccount == Init => AccountInv
BY InitType, InitCopies DEF AccountInv

LEMMA StepAccount == AccountInv /\ [Next]_vars => AccountInv'
BY StepTypes, StepMoves, CopiesStay, StepPasswords, StepLinks DEF AccountInv

\* Nobody but the holder of a link ever gave a parent a first password, whatever rows were
\* read, deleted and written back late.
THEOREM PasswordsByLinks == Spec => []PasswordsCameByLinks
<1>1. AccountInv => PasswordsCameByLinks
  BY DEF AccountInv, PasswordsOpened, PasswordsCameByLinks, LinkOpened, Recast
<1> QED
  BY <1>1, InitAccount, StepAccount, PTL DEF Spec

\* A parent without a password has a link queued, or about to be, unless a request failed
\* at that very point.
THEOREM LinksForParents == Spec => []ParentsGetALink
<1>1. AccountInv => ParentsGetALink
  BY DEF AccountInv, LinksOnTheirWay, ParentsGetALink, LinkOnItsWay, Recast
<1> QED
  BY <1>1, InitAccount, StepAccount, PTL DEF Spec

\* Deactivated or deleted accounts come back by the save of an old copy and in no other
\* way, and only where the copy was active when it was read or the admin made it so.
THEOREM ReturnsByOldCopy == Spec => AccessReturnsByOldCopy
<1> DEFINE Returns ==
      /\ \A u \in User :
           users[u] # None /\ (users[u] = Gone \/ ~users[u].active)
             /\ users'[u] # Gone /\ users'[u].active
           => \E h \in Handler : req[h].stage = "save" /\ req[h].u = u /\ req[h].row.active
      /\ \A h \in Handler :
           req'[h].row # None /\ req'[h].row.active
             /\ (req[h].row = None \/ ~req[h].row.active)
           => req[h].stage = "form" \/ users[req'[h].u].active
<1>1. ASSUME AccountInv, [Next]_vars PROVE [Returns]_vars
  <2>1. Moves
    BY <1>1, StepMoves DEF AccountInv
  <2>2. ASSUME NEW u \in User, users[u] # None, users[u] = Gone \/ ~users[u].active,
               users'[u] # Gone, users'[u].active
        PROVE  \E h \in Handler : req[h].stage = "save" /\ req[h].u = u /\ req[h].row.active
    <3>1. RowMoves(u)
      BY <2>1 DEF Moves
    <3>2. ~(Exists(u) /\ users'[u] = [users[u] EXCEPT !.active = FALSE])
      BY <1>1, <2>2, RowTypes DEF AccountInv, Row
    <3>3. users'[u] # users[u]
      BY <2>2
    <3> QED
      BY <2>2, <3>1, <3>2, <3>3 DEF RowMoves
  <2>3. \A h \in Handler : Reactivates(req'[h], req[h])
    BY <2>1 DEF Moves, CopyMoves
  <2> QED
    BY <2>2, <2>3 DEF Reactivates
<1>2. Spec => []AccountInv
  BY InitAccount, StepAccount, PTL DEF Spec
<1> QED
  BY <1>1, <1>2, PTL DEF Spec, AccessReturnsByOldCopy
=============================================================================
