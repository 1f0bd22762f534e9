--------------------------- MODULE SharingProofs ----------------------------
(***************************************************************************)
(* Theorems about Accounts on what requests that overlap may share, a link *)
(* or a phone number: never more of them than there are threads, however   *)
(* many threads and rows there are.                                        *)
(***************************************************************************)
EXTENDS AccountsProofs, FiniteSetTheorems

N == Cardinality(Handler)

LEMMA Threads ==
  ASSUME NEW S, S \subseteq Handler
  PROVE  IsFiniteSet(S) /\ Cardinality(S) \in Nat /\ N \in Nat /\ Cardinality(S) <= N
BY AccountsConstantsOK, FS_Subset, FS_CardinalityType DEF N

-----------------------------------------------------------------------------
\* One link.  While it is live, every password set through it belongs to a request that
\* has yet to mark it; once one of them has, no request begins.

Holding(s, i) == {h \in Handler : req[h].stage = s /\ req[h].inv = i}

Unspent(i) == invites[i] = None \/ invites[i].state = "live"

FewOpened ==
  \A i \in Invite : <<"mark", i>> \notin excused =>
    /\ opened[i] + Cardinality(Holding("save", i)) <= N
    /\ Unspent(i) => opened[i] <= Cardinality(Holding("mark", i))

LEMMA Disjoint ==
  ASSUME NEW i \in Invite, NEW h \in Handler, h \notin Holding("save", i), h \notin Holding("mark", i)
  PROVE  Cardinality(Holding("save", i)) + Cardinality(Holding("mark", i)) + 1 <= N
<1> DEFINE S == Holding("save", i)
           M == Holding("mark", i)
<1>1. S \subseteq Handler /\ M \subseteq Handler /\ S \cap M = {}
  BY DEF Holding
<1>2. IsFiniteSet(S) /\ IsFiniteSet(M) /\ IsFiniteSet(S \cup M)
  BY <1>1, Threads, FS_Union
<1>3. Cardinality(S \cup M) = Cardinality(S) + Cardinality(M) - Cardinality(S \cap M)
  BY <1>2, FS_Union
<1>4. Cardinality(S \cap M) = 0
  BY <1>1, FS_EmptySet
<1>5. Cardinality((S \cup M) \cup {h}) = Cardinality(S \cup M) + 1
  BY <1>2, FS_AddElement
<1>6. Cardinality((S \cup M) \cup {h}) <= N
  BY <1>1, Threads
<1>7. Cardinality(S) \in Nat /\ Cardinality(M) \in Nat /\ Cardinality(S \cup M) \in Nat /\ N \in Nat
  BY <1>1, Threads
<1> HIDE DEF S, M
<1> QED
  BY <1>3, <1>4, <1>5, <1>6, <1>7 DEF S, M

\* What a step does to link i: nothing that counts, or a request begins to use it, or
\* saves a password through it.
LinkMoves(i) ==
  \/ <<"mark", i>> \in excused'
  \/ /\ opened'[i] = opened[i] /\ Holding("save", i)' \subseteq Holding("save", i)
     /\ Unspent(i)' => Unspent(i) /\ Holding("mark", i) \subseteq Holding("mark", i)'
  \/ /\ opened'[i] = opened[i] /\ Unspent(i)
     /\ \E h \in Handler : /\ h \notin Holding("save", i) /\ h \notin Holding("mark", i)
                           /\ Holding("save", i)' = Holding("save", i) \cup {h}
                           /\ Holding("mark", i)' = Holding("mark", i)
  \/ /\ opened'[i] = opened[i] + 1 /\ (Unspent(i)' => Unspent(i))
     /\ \E h \in Handler : /\ h \in Holding("save", i) /\ h \notin Holding("mark", i)
                           /\ Holding("save", i)' = Holding("save", i) \ {h}
                           /\ Holding("mark", i)' = Holding("mark", i) \cup {h}

LEMMA CountsMove ==
  ASSUME TypeInv, FewOpened, excused \subseteq excused', \A i \in Invite : LinkMoves(i)
  PROVE  FewOpened'
<1> SUFFICES ASSUME NEW i \in Invite, <<"mark", i>> \notin excused'
             PROVE  /\ opened'[i] + Cardinality(Holding("save", i)') <= N
                    /\ Unspent(i)' => opened'[i] <= Cardinality(Holding("mark", i)')
  BY DEF FewOpened, N
<1> DEFINE S == Holding("save", i)
           M == Holding("mark", i)
<1>1. S \subseteq Handler /\ M \subseteq Handler /\ S' \subseteq Handler /\ M' \subseteq Handler
  BY DEF Holding
<1>2. /\ IsFiniteSet(S) /\ IsFiniteSet(M) /\ IsFiniteSet(S') /\ IsFiniteSet(M')
      /\ Cardinality(S) \in Nat /\ Cardinality(M) \in Nat /\ N \in Nat
      /\ Cardinality(S') \in Nat /\ Cardinality(M') \in Nat
  BY <1>1, Threads
<1>3. opened[i] \in Nat /\ opened[i] + Cardinality(S) <= N /\ (Unspent(i) => opened[i] <= Cardinality(M))
  BY DEF FewOpened, TypeInv, TypeOK
<1>4. ASSUME opened'[i] = opened[i], S' \subseteq S, Unspent(i)' => Unspent(i) /\ M \subseteq M'
      PROVE  /\ opened'[i] + Cardinality(S') <= N
             /\ Unspent(i)' => opened'[i] <= Cardinality(M')
  <2>1. Cardinality(S') <= Cardinality(S)
    BY <1>2, <1>4, FS_Subset
  <2>2. M \subseteq M' => Cardinality(M) <= Cardinality(M')
    BY <1>2, FS_Subset
  <2> HIDE DEF S, M
  <2> QED
    BY <1>2, <1>3, <1>4, <2>1, <2>2
<1>5. ASSUME opened'[i] = opened[i], Unspent(i), NEW h \in Handler, h \notin S, h \notin M,
             S' = S \cup {h}, M' = M
      PROVE  /\ opened'[i] + Cardinality(S') <= N
             /\ Unspent(i)' => opened'[i] <= Cardinality(M')
  <2>1. Cardinality(S') = Cardinality(S) + 1
    BY <1>2, <1>5, FS_AddElement
  <2>2. Cardinality(S) + Cardinality(M) + 1 <= N
    BY <1>5, Disjoint
  <2>3. Cardinality(M') = Cardinality(M)
    BY <1>5
  <2> HIDE DEF S, M
  <2> QED
    BY <1>2, <1>3, <1>5, <2>1, <2>2, <2>3
<1>6. ASSUME opened'[i] = opened[i] + 1, Unspent(i)' => Unspent(i),
             NEW h \in Handler, h \in S, h \notin M, S' = S \ {h}, M' = M \cup {h}
      PROVE  /\ opened'[i] + Cardinality(S') <= N
             /\ Unspent(i)' => opened'[i] <= Cardinality(M')
  <2>1. Cardinality(S') = Cardinality(S) - 1
    BY <1>2, <1>6, FS_RemoveElement
  <2>2. Cardinality(M') = Cardinality(M) + 1
    BY <1>2, <1>6, FS_AddElement
  <2> HIDE DEF S, M
  <2> QED
    BY <1>2, <1>3, <1>6, <2>1, <2>2
<1> QED
  BY <1>4, <1>5, <1>6 DEF LinkMoves

\* A request that holds no link, before and after.
Handsfree(q) == q.stage \in {"save", "mark"} => q.inv = None

LEMMA HoldingStep ==
  ASSUME TypeInv, NEW h \in Handler, NEW q, req' = [req EXCEPT ![h] = q], NEW s, NEW i
  PROVE  Holding(s, i)' = IF q.stage = s /\ q.inv = i THEN Holding(s, i) \cup {h}
                                                       ELSE Holding(s, i) \ {h}
<1>1. \A g \in Handler : req'[g] = IF g = h THEN q ELSE req[g]
  BY DEF TypeInv, TypeOK
<1> QED
  BY <1>1 DEF Holding

LEMMA HandsfreeMoves ==
  ASSUME TypeInv, NEW h \in Handler, NEW q, req' = [req EXCEPT ![h] = q],
         Handsfree(req[h]), Handsfree(q), opened' = opened,
         \A i \in Invite : Unspent(i)' => Unspent(i)
  PROVE  \A i \in Invite : LinkMoves(i)
<1> SUFFICES ASSUME NEW i \in Invite PROVE LinkMoves(i)
  OBVIOUS
<1>1. ASSUME NEW s \in {"save", "mark"} PROVE Holding(s, i)' = Holding(s, i)
  <2>1. i # None
    BY AccountsConstantsOK
  <2>2. ~(q.stage = s /\ q.inv = i) /\ ~(req[h].stage = s /\ req[h].inv = i)
    BY <1>1, <2>1 DEF Handsfree
  <2> QED
    BY <2>2, HoldingStep DEF Holding
<1> QED
  BY <1>1 DEF LinkMoves

\* A step of no request.
LEMMA ForeignLinkMoves ==
  ASSUME req' = req, opened' = opened, \A i \in Invite : Unspent(i)' => Unspent(i)
  PROVE  \A i \in Invite : LinkMoves(i)
BY DEF LinkMoves, Holding

LEMMA CreatedWasUnspent ==
  ASSUME TypeInv, NEW u, NEW i \in Invite, CreateInvite(u, i)
  PROVE  \A j \in Invite : Unspent(j)' => Unspent(j)
<1>1. \A j \in Invite : j # i => invites'[j] = invites[j]
  BY DEF CreateInvite, TypeInv, TypeOK
<1> QED
  BY <1>1 DEF CreateInvite, IsNext, Unspent

LEMMA ArriveLinks ==
  ASSUME TypeInv, NEW h \in Handler, Arrive(h)
  PROVE  \A i \in Invite : LinkMoves(i)
<1>1. ASSUME NEW i \in Invite, NEW pw \in Password, FollowLink(h, i, pw)
      PROVE  \A j \in Invite : LinkMoves(j)
  <2> DEFINE q == [Idle EXCEPT !.stage = "save", !.u = invites[i].user, !.inv = i,
                               !.row = [users[invites[i].user] EXCEPT !.password = pw]]
  <2>1. /\ req' = [req EXCEPT ![h] = q] /\ req[h].stage = "idle" /\ q.stage = "save" /\ q.inv = i
        /\ opened' = opened /\ invites' = invites /\ Unspent(i)
    BY <1>1 DEF FollowLink, Begin, Idle, tables, Unspent
  <2> HIDE DEF q
  <2>2. \A g \in Handler : req'[g] = IF g = h THEN q ELSE req[g]
    BY <2>1 DEF TypeInv, TypeOK
  <2>3. \A j \in Invite : Holding("mark", j)' = Holding("mark", j)
    BY <2>1, <2>2 DEF Holding
  <2>4. \A j \in Invite : j # i => Holding("save", j)' = Holding("save", j)
    BY <2>1, <2>2 DEF Holding
  <2>5. /\ Holding("save", i)' = Holding("save", i) \cup {h}
        /\ h \notin Holding("save", i) /\ h \notin Holding("mark", i)
    BY <2>1, <2>2 DEF Holding
  <2> QED
    BY <2>1, <2>3, <2>4, <2>5 DEF LinkMoves, Unspent
<1>2. ASSUME NEW q, req[h] = Idle, req' = [req EXCEPT ![h] = q], Handsfree(q), opened' = opened,
             \A i \in Invite : Unspent(i)' => Unspent(i)
      PROVE  \A i \in Invite : LinkMoves(i)
  <2>1. Handsfree(req[h])
    BY <1>2 DEF Handsfree, Idle
  <2> QED
    BY <1>2, <2>1, HandsfreeMoves
<1>3. invites' = invites => \A i \in Invite : Unspent(i)' => Unspent(i)
  BY DEF Unspent
<1>4. ASSUME NEW u \in User, NEW i \in Invite, NEW p \in Phone \cup {None}, NEW e \in mix.emails,
             NEW pw \in Password \cup {Unusable}, CreateOperator(h, u, i, p, e, pw)
      PROVE  \A j \in Invite : LinkMoves(j)
  <2> DEFINE told == [Idle EXCEPT !.stage = "text", !.u = u, !.inv = i,
                                  !.to = OperatorAddress(p, e)]
  <2>1. /\ req' = [req EXCEPT ![h] = Idle] \/ req' = [req EXCEPT ![h] = told]
        /\ req[h] = Idle /\ opened' = opened
        /\ invites' = invites \/ CreateInvite(u, i)
    BY <1>4 DEF CreateOperator, Begin
  <2>2. Handsfree(Idle) /\ Handsfree(told)
    BY DEF Handsfree, Idle
  <2>3. \A j \in Invite : Unspent(j)' => Unspent(j)
    BY <1>3, <2>1, CreatedWasUnspent
  <2> HIDE DEF told
  <2> QED
    BY <1>2, <2>1, <2>2, <2>3
<1>5. ASSUME NEW p \in Phone, EnrollLookup(h, p) PROVE \A i \in Invite : LinkMoves(i)
  <2> DEFINE q == [Idle EXCEPT !.stage = "enroll", !.u = FirstParent(p), !.to = p]
  <2>1. Handsfree(q)
    BY DEF Handsfree, Idle
  <2> HIDE DEF q
  <2> QED
    BY <1>2, <1>3, <1>5, <2>1 DEF EnrollLookup, Begin, tables, q
<1>6. ASSUME NEW u \in User, ResendRead(h, u) PROVE \A i \in Invite : LinkMoves(i)
  <2> DEFINE q == [Idle EXCEPT !.stage = "invite", !.u = u, !.to = users[u].phone]
  <2>1. Handsfree(q)
    BY DEF Handsfree, Idle
  <2> HIDE DEF q
  <2> QED
    BY <1>2, <1>3, <1>6, <2>1 DEF ResendRead, Begin, tables, q
<1>7. ASSUME NEW u \in User, PatchRead(h, u) PROVE \A i \in Invite : LinkMoves(i)
  <2> DEFINE q == [Idle EXCEPT !.stage = "patch", !.u = u, !.row = users[u]]
  <2>1. Handsfree(q)
    BY DEF Handsfree, Idle
  <2> HIDE DEF q
  <2> QED
    BY <1>2, <1>3, <1>7, <2>1 DEF PatchRead, Begin, tables, q
<1>8. ASSUME NEW u \in User, AdminRead(h, u) PROVE \A i \in Invite : LinkMoves(i)
  <2> DEFINE q == [Idle EXCEPT !.stage = "form", !.u = u, !.row = users[u]]
  <2>1. Handsfree(q)
    BY DEF Handsfree, Idle
  <2> HIDE DEF q
  <2> QED
    BY <1>2, <1>3, <1>8, <2>1 DEF AdminRead, Begin, tables, q
<1>9. ASSUME NEW u \in User, NEW e \in mix.emails, MePatch(h, u, e) PROVE \A i \in Invite : LinkMoves(i)
  <2> DEFINE q == [Idle EXCEPT !.stage = "save", !.u = u, !.row = [users[u] EXCEPT !.email = e]]
  <2>1. Handsfree(q)
    BY DEF Handsfree, Idle
  <2> HIDE DEF q
  <2> QED
    BY <1>2, <1>3, <1>9, <2>1 DEF MePatch, Begin, tables, q
<1>10. ASSUME NEW u \in User, NEW pw \in Password, ChangePassword(h, u, pw)
       PROVE  \A i \in Invite : LinkMoves(i)
  <2> DEFINE q == [Idle EXCEPT !.stage = "save", !.u = u, !.row = [users[u] EXCEPT !.password = pw]]
  <2>1. Handsfree(q)
    BY DEF Handsfree, Idle
  <2> HIDE DEF q
  <2> QED
    BY <1>2, <1>3, <1>10, <2>1 DEF ChangePassword, Begin, tables, q
<1> QED
  BY <1>1, <1>4, <1>5, <1>6, <1>7, <1>8, <1>9, <1>10 DEF Arrive

LEMMA ServeLinks ==
  ASSUME TypeInv, NEW h \in Handler, Serve(h)
  PROVE  \A i \in Invite : LinkMoves(i)
<1>0. /\ req[h] \in Request /\ Proper(req[h]) /\ Owned(req[h])
      /\ invites' = invites => \A i \in Invite : Unspent(i)' => Unspent(i)
  BY DEF TypeInv, TypeOK, Unspent
<1>1. CASE EnrollKnown(h) \/ SendText(h)
  <2>1. req' = [req EXCEPT ![h] = Idle] /\ opened' = opened /\ invites' = invites
    BY <1>1 DEF EnrollKnown, SendText, Go, tables
  <2>2. Handsfree(req[h]) /\ Handsfree(Idle)
    BY <1>1 DEF EnrollKnown, SendText, Go, Handsfree, Idle
  <2> QED
    BY <1>0, <2>1, <2>2, HandsfreeMoves
<1>2. CASE Save(h)
  <2>1. invites' = invites /\ req[h].stage = "save"
    BY <1>2 DEF Save, Go
  <2>2. CASE req[h].inv = None
    <3>1. req' = [req EXCEPT ![h] = Idle] /\ opened' = opened
      BY <1>2, <2>2 DEF Save, Go
    <3>2. Handsfree(req[h]) /\ Handsfree(Idle)
      BY <2>2 DEF Handsfree, Idle
    <3> QED
      BY <1>0, <2>1, <3>1, <3>2, HandsfreeMoves
  <2>3. CASE req[h].inv # None
    <3> DEFINE q == [req[h] EXCEPT !.stage = "mark"]
    <3>1. PICK i \in Invite : i = req[h].inv
      BY <1>0, <2>3 DEF Request
    <3>2. /\ req' = [req EXCEPT ![h] = q] /\ q.stage = "mark" /\ q.inv = i
          /\ opened' = [opened EXCEPT ![i] = @ + 1]
      BY <1>0, <1>2, <2>3, <3>1 DEF Save, Go, Request
    <3>3. /\ opened'[i] = opened[i] + 1
          /\ \A j \in Invite : j # i => opened'[j] = opened[j]
      BY <3>2 DEF TypeInv, TypeOK
    <3> HIDE DEF q
    <3>0. \A g \in Handler : req'[g] = IF g = h THEN q ELSE req[g]
      BY <3>2 DEF TypeInv, TypeOK
    <3>4. /\ h \in Holding("save", i) /\ \A j \in Invite : h \notin Holding("mark", j)
          /\ \A j \in Invite : j # i => h \notin Holding("save", j)
      BY <2>1, <3>1 DEF Holding
    <3>5. /\ Holding("save", i)' = Holding("save", i) \ {h}
          /\ Holding("mark", i)' = Holding("mark", i) \cup {h}
          /\ \A j \in Invite : j # i => /\ Holding("save", j)' = Holding("save", j)
                                        /\ Holding("mark", j)' = Holding("mark", j)
      BY <2>1, <3>0, <3>1, <3>2 DEF Holding
    <3> QED
      BY <2>1, <3>3, <3>4, <3>5 DEF LinkMoves, Unspent
  <2> QED
    BY <2>2, <2>3
<1>3. CASE MarkUsed(h)
  <2>1. PICK i \in Invite : i = req[h].inv /\ invites[i] \in InviteRow /\ req[h].stage = "mark"
    BY <1>0, <1>3, RowTypes DEF MarkUsed, Go, Request, Proper, Owned
  <2>2. Used(invites[i]) \in InviteRow /\ Used(invites[i]).state # "live"
    BY <2>1 DEF Used, InviteRow
  <2>3. \A j \in Invite : invites'[j] = IF j = i THEN Used(invites[i]) ELSE invites[j]
    BY <1>3, <2>1 DEF MarkUsed, TypeInv, TypeOK
  <2>4. ~Unspent(i)' /\ \A j \in Invite : j # i => (Unspent(j)' => Unspent(j))
    BY <2>2, <2>3, AccountsConstantsOK DEF Unspent
  <2>5. req' = [req EXCEPT ![h] = Idle] /\ opened' = opened /\ Idle.stage = "idle"
    BY <1>3 DEF MarkUsed, Go, Idle
  <2>0. \A g \in Handler : req'[g] = IF g = h THEN Idle ELSE req[g]
    BY <2>5 DEF TypeInv, TypeOK
  <2>6. \A j \in Invite : Holding("save", j)' = Holding("save", j)
    BY <2>0, <2>1, <2>5 DEF Holding
  <2>7. \A j \in Invite : j # i => Holding("mark", j)' = Holding("mark", j)
    BY <2>0, <2>1, <2>5 DEF Holding
  <2> QED
    BY <2>4, <2>5, <2>6, <2>7 DEF LinkMoves
<1>4. ASSUME NEW q, req' = [req EXCEPT ![h] = q], q.inv = req[h].inv, q.stage = "save",
             req[h].stage \in {"patch", "form"}, UNCHANGED <<invites, opened>>
      PROVE  \A i \in Invite : LinkMoves(i)
  <2>1. Handsfree(req[h]) /\ Handsfree(q)
    BY <1>0, <1>4 DEF Handsfree, Proper
  <2> QED
    BY <1>0, <1>4, <2>1, HandsfreeMoves
<1>5. ASSUME NEW e \in mix.emails, PatchRest(h, e) PROVE \A i \in Invite : LinkMoves(i)
  <2> DEFINE q == [req[h] EXCEPT !.stage = "save", !.row.email = e]
  <2>1. q.inv = req[h].inv /\ q.stage = "save"
    BY <1>0 DEF Request
  <2> HIDE DEF q
  <2> QED
    BY <1>4, <1>5, <2>1 DEF PatchRest, Go, tables, q
<1>6. ASSUME NEW p \in Phone, PatchPhone(h, p) PROVE \A i \in Invite : LinkMoves(i)
  <2> DEFINE q == [req[h] EXCEPT !.stage = "save", !.row = Patched(@, p)]
  <2>1. q.inv = req[h].inv /\ q.stage = "save"
    BY <1>0 DEF Request
  <2> HIDE DEF q
  <2> QED
    BY <1>4, <1>6, <2>1 DEF PatchPhone, Go, tables, q
<1>7. ASSUME NEW role \in Role, NEW p \in Phone \cup {None}, NEW e \in mix.emails,
             NEW tick \in BOOLEAN, AdminPost(h, role, p, e, tick)
      PROVE  \A i \in Invite : LinkMoves(i)
  <2>1. PICK row : row = [req[h].row EXCEPT !.role = role, !.phone = p, !.email = e, !.active = tick]
    OBVIOUS
  <2>2. PICK q : q = [req[h] EXCEPT !.stage = "save", !.row = row]
    OBVIOUS
  <2>3. /\ req[h].stage = "form" /\ req' = [req EXCEPT ![h] = q]
        /\ UNCHANGED <<invites, opened>>
    BY <1>7, <2>1, <2>2 DEF AdminPost, Go
  <2>4. q.inv = req[h].inv /\ q.stage = "save"
    BY <1>0, <2>2 DEF Request
  <2> QED
    BY <1>4, <2>3, <2>4
<1>8. ASSUME NEW u \in User, NEW i \in Invite, NEW e \in mix.emails, EnrollNew(h, u, i, e)
      PROVE  \A j \in Invite : LinkMoves(j)
  <2> DEFINE q == [req[h] EXCEPT !.stage = "text", !.u = u, !.inv = i]
  <2>1. /\ req' = [req EXCEPT ![h] = q] /\ req[h].stage = "enroll" /\ opened' = opened
        /\ CreateInvite(u, i) /\ q.stage = "text"
    BY <1>0, <1>8 DEF EnrollNew, Go, Request
  <2> HIDE DEF q
  <2>2. Handsfree(req[h]) /\ Handsfree(q)
    BY <2>1 DEF Handsfree
  <2> QED
    BY <2>1, <2>2, HandsfreeMoves, CreatedWasUnspent
<1>9. ASSUME NEW i \in Invite, ResendCreate(h, i) PROVE \A j \in Invite : LinkMoves(j)
  <2> DEFINE q == [req[h] EXCEPT !.stage = "text", !.inv = i]
  <2>1. /\ req' = [req EXCEPT ![h] = q] /\ req[h].stage = "invite" /\ opened' = opened
        /\ CreateInvite(req[h].u, i) /\ q.stage = "text"
    BY <1>0, <1>9 DEF ResendCreate, Go, Request
  <2> HIDE DEF q
  <2>2. Handsfree(req[h]) /\ Handsfree(q)
    BY <2>1 DEF Handsfree
  <2> QED
    BY <2>1, <2>2, HandsfreeMoves, CreatedWasUnspent
<1> QED
  BY <1>1, <1>2, <1>3, <1>5, <1>6, <1>7, <1>8, <1>9 DEF Serve

LEMMA OtherLinks ==
  ASSUME TypeInv,
         \/ \E h \in Handler : Fail(h)
         \/ \E u \in User : Deactivate(u) \/ Delete(u)
         \/ \E i \in Invite : Expire(i)
         \/ \E u \in User, i \in Invite : IssueInvite(u, i)
         \/ \E p \in Phone, c \in Code : TextCode(p, c)
         \/ UNCHANGED vars
  PROVE  \A i \in Invite : LinkMoves(i)
<1>0. invites' = invites => \A i \in Invite : Unspent(i)' => Unspent(i)
  BY DEF Unspent
<1>1. ASSUME NEW h \in Handler, Fail(h), NEW i \in Invite PROVE LinkMoves(i)
  <2>1. /\ req' = [req EXCEPT ![h] = Idle] /\ invites' = invites /\ opened' = opened
        /\ excused' = excused \cup {<<req[h].stage, j>> : j \in {req[h].inv} \ {None}}
    BY <1>1 DEF Fail
  <2>2. \A g \in Handler : req'[g] = IF g = h THEN Idle ELSE req[g]
    BY <2>1 DEF TypeInv, TypeOK
  <2>3. Holding("save", i)' \subseteq Holding("save", i)
    BY <2>2 DEF Holding, Idle
  <2>4. CASE h \in Holding("mark", i)
    <3>1. req[h].stage = "mark" /\ i \in {req[h].inv} \ {None}
      BY <2>4, AccountsConstantsOK DEF Holding
    <3> QED
      BY <2>1, <3>1 DEF LinkMoves
  <2>5. CASE h \notin Holding("mark", i)
    <3>1. Holding("mark", i) \subseteq Holding("mark", i)'
      BY <2>2, <2>5 DEF Holding
    <3> QED
      BY <2>1, <2>3, <3>1 DEF LinkMoves, Unspent
  <2> QED
    BY <2>4, <2>5
<1>2. ASSUME NEW u \in User, Deactivate(u) PROVE \A i \in Invite : LinkMoves(i)
  BY <1>0, <1>2, ForeignLinkMoves DEF Deactivate
<1>3. ASSUME NEW u \in User, Delete(u) PROVE \A i \in Invite : LinkMoves(i)
  <2>1. \A i \in Invite : invites'[i] = IF invites[i] # None /\ invites[i].user = u
                                          THEN [user |-> u, state |-> "deleted"] ELSE invites[i]
    BY <1>3 DEF Delete
  <2>2. [user |-> u, state |-> "deleted"] \in InviteRow
    BY DEF InviteRow
  <2>3. \A i \in Invite : Unspent(i)' => Unspent(i)
    BY <2>1, <2>2, AccountsConstantsOK DEF Unspent
  <2> QED
    BY <1>3, <2>3, ForeignLinkMoves DEF Delete
<1>4. ASSUME NEW i \in Invite, Expire(i) PROVE \A j \in Invite : LinkMoves(j)
  <2>1. invites' = [invites EXCEPT ![i].state = "expired"] /\ Unspent(i)
    BY <1>4 DEF Expire, Unspent
  <2>2. \A j \in Invite : Unspent(j)' => Unspent(j)
    BY <2>1 DEF Unspent, TypeInv, TypeOK
  <2> QED
    BY <1>4, <2>2, ForeignLinkMoves DEF Expire
<1>5. ASSUME NEW u \in User, NEW i \in Invite, IssueInvite(u, i) PROVE \A j \in Invite : LinkMoves(j)
  BY <1>5, CreatedWasUnspent, ForeignLinkMoves DEF IssueInvite
<1>6. ASSUME NEW p \in Phone, NEW c \in Code, TextCode(p, c) PROVE \A j \in Invite : LinkMoves(j)
  BY <1>0, <1>6, ForeignLinkMoves DEF TextCode
<1>7. CASE UNCHANGED vars
  BY <1>0, <1>7, ForeignLinkMoves DEF vars
<1> QED
  BY <1>1, <1>2, <1>3, <1>4, <1>5, <1>6, <1>7

LEMMA ExcusedGrows == [Next]_vars => excused \subseteq excused'
<1>1. ASSUME NEW h \in Handler, Arrive(h) PROVE excused' = excused
  BY <1>1 DEF Arrive, EnrollLookup, ResendRead, PatchRead, AdminRead, MePatch, ChangePassword,
              FollowLink, CreateOperator, tables
<1>2. ASSUME NEW h \in Handler, Serve(h) PROVE excused \subseteq excused'
  BY <1>2 DEF Serve, EnrollKnown, SendText, Save, MarkUsed, PatchRest, EnrollNew, ResendCreate,
              PatchPhone, AdminPost, tables
<1>3. ASSUME NEW h \in Handler, Fail(h) PROVE excused \subseteq excused'
  BY <1>3 DEF Fail
<1>4. ASSUME NEW u \in User, Deactivate(u) \/ Delete(u) PROVE excused' = excused
  BY <1>4 DEF Deactivate, Delete
<1>5. ASSUME NEW i \in Invite, Expire(i) \/ \E u \in User : IssueInvite(u, i) PROVE excused' = excused
  BY <1>5 DEF Expire, IssueInvite
<1>6. ASSUME NEW p \in Phone, NEW c \in Code, TextCode(p, c) PROVE excused' = excused
  BY <1>6 DEF TextCode
<1>7. UNCHANGED vars => excused' = excused
  BY DEF vars
<1> QED
  BY <1>1, <1>2, <1>3, <1>4, <1>5, <1>6, <1>7 DEF Next, AccountStep

LEMMA InitFewOpened == Init => FewOpened
<1> SUFFICES ASSUME Init, NEW i \in Invite
             PROVE  /\ opened[i] + Cardinality(Holding("save", i)) <= N
                    /\ Unspent(i) => opened[i] <= Cardinality(Holding("mark", i))
  BY DEF FewOpened
<1>1. Holding("save", i) = {} /\ Holding("mark", i) = {}
  BY DEF Init, Holding, Idle
<1>2. Cardinality(Holding("save", i)) = 0 /\ Cardinality(Holding("mark", i)) = 0
  BY <1>1, FS_EmptySet
<1>3. PICK h \in Handler : TRUE
  BY AccountsConstantsOK
<1>4. N \in Nat /\ Cardinality({h}) <= N /\ Cardinality({h}) = 1
  BY Threads, FS_Singleton
<1>5. opened[i] = IF i = 1 THEN 1 ELSE 0
  BY DEF Init
<1>6. i = 1 => ~Unspent(i)
  <2>1. [user |-> 1, state |-> "used"] \in InviteRow
    BY AccountsConstantsOK DEF InviteRow, User
  <2> QED
    BY <2>1, AccountsConstantsOK DEF Init, Unspent
<1> QED
  BY <1>2, <1>4, <1>5, <1>6

LEMMA StepFewOpened == TypeInv /\ FewOpened /\ [Next]_vars => FewOpened'
<1> SUFFICES ASSUME TypeInv, FewOpened, [Next]_vars PROVE FewOpened'
  OBVIOUS
<1>1. \A i \in Invite : LinkMoves(i)
  BY ArriveLinks, ServeLinks, OtherLinks DEF Next, AccountStep
<1> QED
  BY <1>1, ExcusedGrows, CountsMove

\* A link sets at most as many passwords as there are threads, unless a request failed
\* between the password and the mark.
THEOREM LinksOpenFewTimes == Spec => []LinksSetFewPasswords
<1>1. TypeInv /\ FewOpened => LinksSetFewPasswords
  <2> SUFFICES ASSUME TypeInv, FewOpened, NEW i \in Invite, <<"mark", i>> \notin excused
               PROVE  opened[i] <= Cardinality(Handler)
    BY DEF LinksSetFewPasswords
  <2>1. Holding("save", i) \subseteq Handler
    BY DEF Holding
  <2>2. Cardinality(Holding("save", i)) \in Nat /\ N \in Nat /\ opened[i] \in Nat
    BY <2>1, Threads DEF TypeInv, TypeOK
  <2>3. opened[i] + Cardinality(Holding("save", i)) <= N
    BY DEF FewOpened
  <2>4. opened[i] <= N
    BY <2>2, <2>3
  <2> QED
    BY <2>4 DEF N
<1>2. TypeInv /\ FewOpened /\ [Next]_vars => (TypeInv /\ FewOpened)'
  BY StepTypes, StepFewOpened
<1> QED
  BY <1>1, <1>2, InitType, InitFewOpened, PTL DEF Spec

-----------------------------------------------------------------------------
\* One phone number, which the admin's form never set.  The accounts that have it, or could
\* have it once the copies that requests hold are saved, and the enrollments that are about
\* to create one more, are never more than the threads: whenever a thread goes past a check,
\* the number is free but for the copies of others.

HasCopy(q, p) == q.row # None /\ q.row.role = "PARENT" /\ q.row.phone = p

Copied(p) == {u \in User : \E h \in Handler : HasCopy(req[h], p) /\ req[h].u = u}

Sharers(p) == SharesPhone(p) \cup Copied(p)

Creates(q, p) == q.stage = "enroll" /\ q.u = None /\ q.to = p

Enrolling(p) == {h \in Handler : Creates(req[h], p)}

FewSharers ==
  \A p \in Phone : <<"phone", p>> \notin excused =>
    Cardinality(Sharers(p)) + Cardinality(Enrolling(p)) <= N

\* Accounts told apart by the threads that hold them, and threads that hold none.
LEMMA HeldByThreads ==
  ASSUME NEW S, NEW E, E \subseteq Handler, NEW r,
         \A u \in S : \E h \in Handler \ E : r[h].u = u
  PROVE  IsFiniteSet(S) /\ Cardinality(S) + Cardinality(E) <= N
<1> DEFINE T == Handler \ E
           f == [u \in S |-> CHOOSE h \in T : r[h].u = u]
<1>1. \A u \in S : f[u] \in T /\ r[f[u]].u = u
  OBVIOUS
<1>2. f \in [S -> T]
  BY <1>1
<1>3. \A u, v \in S : f[u] = f[v] => u = v
  BY <1>1
<1>4. f \in Injection(S, T)
  <2> HIDE DEF f
  <2> QED
    BY <1>2, <1>3 DEF Injection, IsInjective
<1>5. IsFiniteSet(T) /\ Cardinality(T) = N - Cardinality(E)
  <2>1. Handler \cap E = E
    OBVIOUS
  <2>2. IsFiniteSet(T) /\ Cardinality(T) = N - Cardinality(Handler \cap E)
    BY AccountsConstantsOK, FS_Difference DEF N
  <2> QED
    BY <2>1, <2>2
<1>6. IsFiniteSet(S) /\ Cardinality(S) <= Cardinality(T)
  BY <1>4, <1>5, FS_Injection
<1>7. Cardinality(S) \in Nat /\ Cardinality(E) \in Nat /\ N \in Nat
  BY <1>6, Threads, FS_CardinalityType
<1> HIDE DEF T, f
<1> QED
  BY <1>5, <1>6, <1>7

\* What a step does to phone number p: the admin's form sets it, or there is nobody new, or
\* an enrollment creates an account, or whoever has the number now has it in a copy too.
PhoneMoves(p) ==
  \/ <<"phone", p>> \in excused'
  \/ Sharers(p)' \subseteq Sharers(p) /\ Enrolling(p)' \subseteq Enrolling(p)
  \/ \E h \in Enrolling(p), u \in User :
       Sharers(p)' \subseteq Sharers(p) \cup {u} /\ Enrolling(p)' \subseteq Enrolling(p) \ {h}
  \/ SharesPhone(p)' \subseteq Copied(p)'

LEMMA FiniteSharers ==
  ASSUME NEW S, S \subseteq User
  PROVE  IsFiniteSet(S) /\ Cardinality(S) \in Nat
<1>1. IsFiniteSet(User)
  BY AccountsConstantsOK, FS_Interval DEF User
<1> QED
  BY <1>1, FS_Subset, FS_CardinalityType

LEMMA SharersMove ==
  ASSUME TypeInv, TypeInv', FewSharers, excused \subseteq excused', \A p \in Phone : PhoneMoves(p)
  PROVE  FewSharers'
<1> SUFFICES ASSUME NEW p \in Phone, <<"phone", p>> \notin excused'
             PROVE  Cardinality(Sharers(p)') + Cardinality(Enrolling(p)') <= N
  BY DEF FewSharers, N
<1> DEFINE S == Sharers(p)
           E == Enrolling(p)
<1>1. S \subseteq User /\ S' \subseteq User /\ E \subseteq Handler /\ E' \subseteq Handler
  BY DEF Sharers, SharesPhone, Copied, Enrolling
<1>2. /\ IsFiniteSet(S) /\ IsFiniteSet(S') /\ IsFiniteSet(E) /\ IsFiniteSet(E')
      /\ Cardinality(S) \in Nat /\ Cardinality(S') \in Nat
      /\ Cardinality(E) \in Nat /\ Cardinality(E') \in Nat /\ N \in Nat
  BY <1>1, FiniteSharers, Threads
<1>3. Cardinality(S) + Cardinality(E) <= N
  BY DEF FewSharers
<1>4. ASSUME S' \subseteq S, E' \subseteq E
      PROVE  Cardinality(S') + Cardinality(E') <= N
  <2>1. Cardinality(S') <= Cardinality(S) /\ Cardinality(E') <= Cardinality(E)
    BY <1>2, <1>4, FS_Subset
  <2> HIDE DEF S, E
  <2> QED
    BY <1>2, <1>3, <2>1
<1>5. ASSUME NEW h \in E, NEW u \in User, S' \subseteq S \cup {u}, E' \subseteq E \ {h}
      PROVE  Cardinality(S') + Cardinality(E') <= N
  <2>1. /\ IsFiniteSet(S \cup {u})
        /\ Cardinality(S \cup {u}) = IF u \in S THEN Cardinality(S) ELSE Cardinality(S) + 1
    BY <1>2, FS_AddElement
  <2>2. Cardinality(S \cup {u}) \in Nat /\ Cardinality(S') <= Cardinality(S \cup {u})
    BY <1>5, <2>1, FS_Subset, FS_CardinalityType
  <2>3. IsFiniteSet(E \ {h}) /\ Cardinality(E \ {h}) = Cardinality(E) - 1
    BY <1>2, <1>5, FS_RemoveElement
  <2>4. Cardinality(E') <= Cardinality(E \ {h})
    BY <1>5, <2>3, FS_Subset
  <2> HIDE DEF S, E
  <2> QED
    BY <1>2, <1>3, <2>1, <2>2, <2>3, <2>4
<1>6. ASSUME SharesPhone(p)' \subseteq Copied(p)'
      PROVE  Cardinality(S') + Cardinality(E') <= N
  <2>1. S' = Copied(p)'
    BY <1>6 DEF Sharers
  <2>2. \A h \in E' : req'[h].row = None
    BY DEF Enrolling, Creates, TypeInv, Proper
  <2>3. \A u \in S' : \E h \in Handler : HasCopy(req'[h], p) /\ req'[h].u = u
    BY <2>1 DEF Copied
  <2>4. \A u \in S' : \E h \in Handler \ E' : req'[h].u = u
    BY <2>2, <2>3 DEF HasCopy
  <2> HIDE DEF S, E
  <2> QED
    BY <1>1, <2>4, HeldByThreads
<1> QED
  BY <1>4, <1>5, <1>6 DEF PhoneMoves

\* A request goes on without a write: it holds no copy with a number that was free, and
\* is about to create a parent only where the number is free.
LEMMA ReadShares ==
  ASSUME TypeInv, users' = users, NEW h \in Handler, NEW q, req' = [req EXCEPT ![h] = q],
         \A p \in Phone : HasCopy(q, p) => q.u \in Sharers(p) \/ SharesPhone(p) \subseteq {q.u},
         \A p \in Phone : Creates(q, p) => SharesPhone(p) = {}
  PROVE  \A p \in Phone : PhoneMoves(p)
<1> SUFFICES ASSUME NEW p \in Phone PROVE PhoneMoves(p)
  OBVIOUS
<1>0. \A g \in Handler : req'[g] = IF g = h THEN q ELSE req[g]
  BY DEF TypeInv, TypeOK
<1>1. SharesPhone(p)' = SharesPhone(p)
  BY DEF SharesPhone, IsParent, Exists
<1>2. CASE Creates(q, p)
  BY <1>1, <1>2 DEF PhoneMoves
<1>3. CASE ~Creates(q, p) /\ (HasCopy(q, p) => q.u \in Sharers(p))
  <2>1. Enrolling(p)' \subseteq Enrolling(p)
    BY <1>0, <1>3 DEF Enrolling
  <2>2. Copied(p)' \subseteq Sharers(p)
    BY <1>0, <1>3 DEF Copied, Sharers
  <2> QED
    BY <1>1, <2>1, <2>2 DEF PhoneMoves, Sharers
<1>4. CASE HasCopy(q, p) /\ SharesPhone(p) \subseteq {q.u}
  <2>1. SharesPhone(p) \subseteq Copied(p)'
    BY <1>0, <1>4 DEF Copied, SharesPhone
  <2> QED
    BY <1>1, <2>1 DEF PhoneMoves
<1> QED
  BY <1>2, <1>3, <1>4

\* A row is replaced by one that has no number its user had no share of.
LEMMA WriteShares ==
  ASSUME TypeInv, NEW u \in User, NEW row, users' = [users EXCEPT ![u] = row],
         NEW p \in Phone,
         row \notin {None, Gone} /\ row.role = "PARENT" /\ row.phone = p => u \in Sharers(p)
  PROVE  SharesPhone(p)' \subseteq Sharers(p)
<1>1. \A v \in User : users'[v] = IF v = u THEN row ELSE users[v]
  BY DEF TypeInv, TypeOK
<1> QED
  BY <1>1 DEF SharesPhone, Sharers, IsParent, Exists

LEMMA ArriveShares ==
  ASSUME TypeInv, NEW h \in Handler, Arrive(h)
  PROVE  \A p \in Phone : PhoneMoves(p)
<1>1. ASSUME users' = users, NEW q, req' = [req EXCEPT ![h] = q], q.stage # "enroll",
             q.row # None => /\ Exists(q.u) /\ q.u \in User
                             /\ q.row.role = users[q.u].role /\ q.row.phone = users[q.u].phone
      PROVE  \A p \in Phone : PhoneMoves(p)
  <2>1. \A p \in Phone : HasCopy(q, p) => q.u \in Sharers(p)
    BY <1>1 DEF HasCopy, Sharers, SharesPhone, IsParent
  <2>2. \A p \in Phone : ~Creates(q, p)
    BY <1>1 DEF Creates
  <2> QED
    BY <1>1, <2>1, <2>2, ReadShares
<1>2. ASSUME NEW p \in Phone, EnrollLookup(h, p) PROVE \A o \in Phone : PhoneMoves(o)
  <2> DEFINE q == [Idle EXCEPT !.stage = "enroll", !.u = FirstParent(p), !.to = p]
  <2>1. users' = users /\ req' = [req EXCEPT ![h] = q]
    BY <1>2 DEF EnrollLookup, Begin, tables
  <2>2. \A o \in Phone : ~HasCopy(q, o)
    BY DEF HasCopy, Idle
  <2>3. q.u = FirstParent(p) /\ q.to = p
    BY DEF Idle
  <2>4. FirstParent(p) = None => SharesPhone(p) = {}
    <3>1. SharesPhone(p) \subseteq User /\ None \notin User
      BY AccountsConstantsOK DEF SharesPhone
    <3>2. SharesPhone(p) # {} => FirstParent(p) \in SharesPhone(p)
      BY <3>1, LeastUser DEF FirstParent
    <3> QED
      BY <3>1, <3>2
  <2>5. \A o \in Phone : Creates(q, o) => SharesPhone(o) = {}
    BY <2>3, <2>4 DEF Creates
  <2> HIDE DEF q
  <2> QED
    BY <2>1, <2>2, <2>5, ReadShares
<1>3. ASSUME NEW u \in User, ResendRead(h, u) PROVE \A p \in Phone : PhoneMoves(p)
  <2> DEFINE q == [Idle EXCEPT !.stage = "invite", !.u = u, !.to = users[u].phone]
  <2>1. q.stage # "enroll" /\ q.row = None
    BY DEF Idle
  <2> HIDE DEF q
  <2> QED
    BY <1>1, <1>3, <2>1 DEF ResendRead, Begin, tables, q
<1>4. ASSUME NEW u \in User, PatchRead(h, u) PROVE \A p \in Phone : PhoneMoves(p)
  <2> DEFINE q == [Idle EXCEPT !.stage = "patch", !.u = u, !.row = users[u]]
  <2>1. q.stage # "enroll" /\ Exists(q.u) /\ q.u = u /\ q.row = users[u]
    BY <1>4 DEF PatchRead, IsParent, Idle
  <2> HIDE DEF q
  <2> QED
    BY <1>1, <1>4, <2>1 DEF PatchRead, Begin, tables, q
<1>5. ASSUME NEW u \in User, AdminRead(h, u) PROVE \A p \in Phone : PhoneMoves(p)
  <2> DEFINE q == [Idle EXCEPT !.stage = "form", !.u = u, !.row = users[u]]
  <2>1. q.stage # "enroll" /\ Exists(q.u) /\ q.u = u /\ q.row = users[u]
    BY <1>5 DEF AdminRead, Idle
  <2> HIDE DEF q
  <2> QED
    BY <1>1, <1>5, <2>1 DEF AdminRead, Begin, tables, q
<1>6. ASSUME NEW u \in User, NEW e \in mix.emails, MePatch(h, u, e)
      PROVE  \A p \in Phone : PhoneMoves(p)
  <2> DEFINE q == [Idle EXCEPT !.stage = "save", !.u = u, !.row = [users[u] EXCEPT !.email = e]]
  <2>1. Exists(u) /\ users[u] \in Row
    BY <1>6, RowTypes DEF MePatch
  <2>2. /\ q.stage # "enroll" /\ q.u = u
        /\ q.row.role = users[u].role /\ q.row.phone = users[u].phone
    BY <2>1 DEF Idle, Row
  <2> HIDE DEF q
  <2> QED
    BY <1>1, <1>6, <2>1, <2>2 DEF MePatch, Begin, tables, q
<1>7. ASSUME NEW u \in User, NEW pw \in Password, ChangePassword(h, u, pw)
      PROVE  \A p \in Phone : PhoneMoves(p)
  <2> DEFINE q == [Idle EXCEPT !.stage = "save", !.u = u, !.row = [users[u] EXCEPT !.password = pw]]
  <2>1. Exists(u) /\ users[u] \in Row
    BY <1>7, RowTypes DEF ChangePassword
  <2>2. /\ q.stage # "enroll" /\ q.u = u
        /\ q.row.role = users[u].role /\ q.row.phone = users[u].phone
    BY <2>1 DEF Idle, Row
  <2> HIDE DEF q
  <2> QED
    BY <1>1, <1>7, <2>1, <2>2 DEF ChangePassword, Begin, tables, q
<1>8. ASSUME NEW i \in Invite, NEW pw \in Password, FollowLink(h, i, pw)
      PROVE  \A p \in Phone : PhoneMoves(p)
  <2> DEFINE u == invites[i].user
             q == [Idle EXCEPT !.stage = "save", !.u = u, !.inv = i,
                               !.row = [users[u] EXCEPT !.password = pw]]
  <2>1. Exists(u) /\ u \in User /\ users[u] \in Row
    BY <1>8, RowTypes DEF FollowLink, InviteRow, TypeInv, LinksHaveUsers
  <2>2. /\ q.stage # "enroll" /\ q.u = u
        /\ q.row.role = users[u].role /\ q.row.phone = users[u].phone
    BY <2>1 DEF Idle, Row
  <2> HIDE DEF q
  <2> QED
    BY <1>1, <1>8, <2>1, <2>2 DEF FollowLink, Begin, tables, q
<1>9. ASSUME NEW u \in User, NEW i \in Invite, NEW p \in Phone \cup {None}, NEW e \in mix.emails,
             NEW pw \in Password \cup {Unusable}, CreateOperator(h, u, i, p, e, pw), NEW o \in Phone
      PROVE  PhoneMoves(o)
  <2> DEFINE row == [role |-> "OPERATOR", phone |-> p, email |-> e,
                     active |-> TRUE, password |-> pw]
             told == [Idle EXCEPT !.stage = "text", !.u = u, !.inv = i,
                                  !.to = OperatorAddress(p, e)]
  <2>1. /\ users' = [users EXCEPT ![u] = row] /\ row.role # "PARENT"
        /\ req' = [req EXCEPT ![h] = Idle] \/ req' = [req EXCEPT ![h] = told]
    BY <1>9 DEF CreateOperator, Begin
  <2>2. SharesPhone(o)' \subseteq Sharers(o)
    BY <2>1, WriteShares
  <2>3. Idle.row = None /\ told.row = None /\ Idle.stage # "enroll" /\ told.stage # "enroll"
    BY DEF Idle
  <2> HIDE DEF told
  <2>4. \A g \in Handler : req'[g] = req[g] \/ (req'[g].row = None /\ req'[g].stage # "enroll")
    BY <2>1, <2>3 DEF TypeInv, TypeOK
  <2>5. Copied(o)' \subseteq Copied(o) /\ Enrolling(o)' \subseteq Enrolling(o)
    BY <2>4 DEF Copied, HasCopy, Enrolling, Creates
  <2> QED
    BY <2>2, <2>5 DEF PhoneMoves, Sharers
<1> QED
  BY <1>2, <1>3, <1>4, <1>5, <1>6, <1>7, <1>8, <1>9 DEF Arrive

LEMMA ServeShares ==
  ASSUME TypeInv, NEW h \in Handler, Serve(h)
  PROVE  \A p \in Phone : PhoneMoves(p)
<1>0. req[h] \in Request /\ Proper(req[h]) /\ req[h].u \in User \cup {None}
  BY DEF TypeInv, TypeOK, Request
<1>1. ASSUME users' = users, NEW q, req' = [req EXCEPT ![h] = q], q.stage # "enroll", q.row = None
      PROVE  \A p \in Phone : PhoneMoves(p)
  BY <1>1, ReadShares DEF HasCopy, Creates
<1>2. CASE EnrollKnown(h) \/ SendText(h) \/ MarkUsed(h)
  <2>1. users' = users /\ req' = [req EXCEPT ![h] = Idle]
    BY <1>2 DEF EnrollKnown, SendText, MarkUsed, Go, tables
  <2>2. Idle.stage # "enroll" /\ Idle.row = None
    BY DEF Idle
  <2> QED
    BY <1>1, <2>1, <2>2
\* A copy with the number it had already, or, from a PATCH, with one that was free.
<1>3. ASSUME users' = users, NEW q, req' = [req EXCEPT ![h] = q], q.stage = "save",
             req[h].row # None, q.u = req[h].u, q.row.role = req[h].row.role,
             \A p \in Phone : q.row.phone = p =>
                req[h].row.phone = p \/ SharesPhone(p) \subseteq {q.u}
      PROVE  \A p \in Phone : PhoneMoves(p)
  <2>1. q.u \in User
    BY <1>0, <1>3 DEF Proper
  <2>2. \A p \in Phone : HasCopy(q, p) => q.u \in Sharers(p) \/ SharesPhone(p) \subseteq {q.u}
    BY <1>3, <2>1 DEF HasCopy, Sharers, Copied
  <2>3. \A p \in Phone : ~Creates(q, p)
    BY <1>3 DEF Creates
  <2> QED
    BY <1>3, <2>2, <2>3, ReadShares
<1>4. ASSUME NEW e \in mix.emails, PatchRest(h, e) PROVE \A p \in Phone : PhoneMoves(p)
  <2> DEFINE q == [req[h] EXCEPT !.stage = "save", !.row.email = e]
  <2>1. req[h].row \in Row /\ req[h].row # None
    BY <1>0, <1>4 DEF PatchRest, Go, Proper, Request
  <2>2. /\ q.stage = "save" /\ q.u = req[h].u
        /\ q.row.role = req[h].row.role /\ q.row.phone = req[h].row.phone
    BY <1>0, <2>1 DEF Request, Row
  <2> HIDE DEF q
  <2> QED
    BY <1>3, <1>4, <2>1, <2>2 DEF PatchRest, Go, tables, q
\* The admin's form leaves a parent with the number of the row it read, or sets one.
<1>5. ASSUME NEW role \in Role, NEW n \in Phone \cup {None}, NEW e \in mix.emails,
             NEW tick \in BOOLEAN, AdminPost(h, role, n, e, tick), NEW p \in Phone
      PROVE  PhoneMoves(p)
  <2>1. PICK old : old = req[h].row
    OBVIOUS
  <2>2. PICK new : new = [old EXCEPT !.role = role, !.phone = n, !.email = e, !.active = tick]
    OBVIOUS
  <2>3. PICK q : q = [req[h] EXCEPT !.stage = "save", !.row = new]
    OBVIOUS
  <2>4. /\ req[h].stage = "form" /\ req' = [req EXCEPT ![h] = q] /\ users' = users
        /\ excused' = excused \cup Unchecked(req[h].u, old, new)
    BY <1>5, <2>1, <2>2, <2>3 DEF AdminPost, Go
  <2>5. old \in Row /\ req[h].row # None /\ req[h].u \in User
    BY <1>0, <2>1, <2>4 DEF Proper, Request
  <2>6. q.u = req[h].u /\ q.row = new /\ new.role = role /\ new.phone = n /\ q.stage = "save"
    BY <1>0, <2>2, <2>3, <2>5 DEF Request, Row
  <2>7. CASE HasCopy(q, p) /\ ~(old.role = "PARENT" /\ old.phone = p)
    <3>1. <<"phone", p>> \in Unchecked(req[h].u, old, new)
      BY <2>6, <2>7, AccountsConstantsOK DEF HasCopy, Unchecked
    <3> QED
      BY <2>4, <3>1 DEF PhoneMoves
  <2>8. CASE HasCopy(q, p) => old.role = "PARENT" /\ old.phone = p
    <3>0. \A g \in Handler : req'[g] = IF g = h THEN q ELSE req[g]
      BY <2>4 DEF TypeInv, TypeOK
    <3>1. HasCopy(q, p) => HasCopy(req[h], p) /\ q.u = req[h].u
      BY <2>1, <2>5, <2>6, <2>8 DEF HasCopy
    <3>2. Copied(p)' \subseteq Copied(p)
      BY <3>0, <3>1 DEF Copied
    <3>3. Enrolling(p)' \subseteq Enrolling(p)
      BY <2>6, <3>0 DEF Enrolling, Creates
    <3>4. SharesPhone(p)' = SharesPhone(p)
      BY <2>4 DEF SharesPhone, IsParent, Exists
    <3> QED
      BY <3>2, <3>3, <3>4 DEF PhoneMoves, Sharers
  <2> QED
    BY <2>7, <2>8
<1>6. ASSUME NEW p \in Phone, PatchPhone(h, p) PROVE \A o \in Phone : PhoneMoves(o)
  <2> DEFINE q == [req[h] EXCEPT !.stage = "save", !.row = Patched(@, p)]
  <2>1. req[h].row \in Row /\ req[h].row # None
    BY <1>0, <1>6 DEF PatchPhone, Go, Proper, Request
  <2>2. /\ q.stage = "save" /\ q.u = req[h].u
        /\ q.row.role = req[h].row.role /\ q.row.phone = p
    BY <1>0, <2>1 DEF Request, Row, Patched
  <2>3. SharesPhone(p) \subseteq {q.u}
    BY <1>6, <2>2 DEF PatchPhone, SharesPhone, IsParent
  <2> HIDE DEF q
  <2> QED
    BY <1>3, <1>6, <2>1, <2>2, <2>3 DEF PatchPhone, Go, tables, q
<1>7. ASSUME Save(h), NEW p \in Phone PROVE PhoneMoves(p)
  <2>1. req[h].u \in User /\ req[h].row # None /\ req[h].row \in Row
    BY <1>0, <1>7 DEF Save, Go, Proper, Request
  <2>2. users' = [users EXCEPT ![req[h].u] = req[h].row]
    BY <1>7 DEF Save
  <2>3. req[h].row.role = "PARENT" /\ req[h].row.phone = p => req[h].u \in Sharers(p)
    BY <2>1 DEF Sharers, Copied, HasCopy
  <2>4. SharesPhone(p)' \subseteq Sharers(p)
    BY <2>1, <2>2, <2>3, WriteShares
  <2>5. \/ req' = [req EXCEPT ![h] = Idle]
        \/ req' = [req EXCEPT ![h] = [req[h] EXCEPT !.stage = "mark"]]
    BY <1>7 DEF Save, Go
  <2>6. \A g \in Handler :
          /\ req'[g].row = None \/ (req'[g].row = req[g].row /\ req'[g].u = req[g].u)
          /\ req'[g] = req[g] \/ req'[g].stage # "enroll"
    BY <1>0, <2>5 DEF TypeInv, TypeOK, Idle, Request
  <2>7. Copied(p)' \subseteq Copied(p) /\ Enrolling(p)' \subseteq Enrolling(p)
    BY <2>6 DEF Copied, HasCopy, Enrolling, Creates
  <2> QED
    BY <2>4, <2>7 DEF PhoneMoves, Sharers
<1>8. ASSUME NEW u \in User, NEW i \in Invite, NEW e \in mix.emails, EnrollNew(h, u, i, e),
             NEW p \in Phone
      PROVE  PhoneMoves(p)
  <2> DEFINE row == NewParent(req[h].to, e)
             q == [req[h] EXCEPT !.stage = "text", !.u = u, !.inv = i]
  <2>1. /\ users' = [users EXCEPT ![u] = row] /\ req' = [req EXCEPT ![h] = q]
        /\ req[h].stage = "enroll" /\ req[h].u = None
    BY <1>8 DEF EnrollNew, Go
  <2>2. q.stage = "text" /\ q.row = None /\ row.phone = req[h].to
    BY <1>0, <2>1 DEF Request, Proper, NewParent
  <2> HIDE DEF q, row
  <2>3. \A g \in Handler : req'[g] = IF g = h THEN q ELSE req[g]
    BY <2>1 DEF TypeInv, TypeOK
  <2>4. /\ Copied(p)' \subseteq Copied(p)
        /\ Enrolling(p)' \subseteq Enrolling(p) \ {h}
    BY <2>2, <2>3 DEF Copied, HasCopy, Enrolling, Creates
  <2>5. \A v \in User : users'[v] = IF v = u THEN row ELSE users[v]
    BY <2>1 DEF TypeInv, TypeOK
  <2>6. SharesPhone(p)' \subseteq IF req[h].to = p THEN SharesPhone(p) \cup {u} ELSE SharesPhone(p)
    BY <2>2, <2>5 DEF SharesPhone, IsParent, Exists
  <2>7. req[h].to = p => h \in Enrolling(p)
    BY <2>1 DEF Enrolling, Creates
  <2> QED
    BY <2>4, <2>6, <2>7 DEF PhoneMoves, Sharers
<1>9. ASSUME NEW i \in Invite, ResendCreate(h, i) PROVE \A p \in Phone : PhoneMoves(p)
  <2> DEFINE q == [req[h] EXCEPT !.stage = "text", !.inv = i]
  <2>1. q.stage # "enroll" /\ q.row = None
    BY <1>0, <1>9 DEF ResendCreate, Go, Request, Proper
  <2> HIDE DEF q
  <2> QED
    BY <1>1, <1>9, <2>1 DEF ResendCreate, Go, q
<1> QED
  BY <1>2, <1>4, <1>5, <1>6, <1>7, <1>8, <1>9 DEF Serve

LEMMA OtherShares ==
  ASSUME TypeInv,
         \/ \E h \in Handler : Fail(h)
         \/ \E u \in User : Deactivate(u) \/ Delete(u)
         \/ \E i \in Invite : Expire(i)
         \/ \E u \in User, i \in Invite : IssueInvite(u, i)
         \/ \E p \in Phone, c \in Code : TextCode(p, c)
         \/ UNCHANGED vars
  PROVE  \A p \in Phone : PhoneMoves(p)
<1>1. ASSUME NEW h \in Handler, Fail(h) PROVE \A p \in Phone : PhoneMoves(p)
  <2>1. users' = users /\ req' = [req EXCEPT ![h] = Idle] /\ Idle.row = None /\ Idle.stage # "enroll"
    BY <1>1 DEF Fail, Idle
  <2> QED
    BY <2>1, ReadShares DEF HasCopy, Creates
<1>2. ASSUME req' = req, users' = users, NEW p \in Phone PROVE PhoneMoves(p)
  BY <1>2 DEF PhoneMoves, Sharers, SharesPhone, IsParent, Exists, Copied, HasCopy, Enrolling, Creates
<1>3. ASSUME req' = req, NEW u \in User, NEW row, users' = [users EXCEPT ![u] = row],
             row = Gone \/ (Exists(u) /\ row.role = users[u].role /\ row.phone = users[u].phone),
             NEW p \in Phone
      PROVE  PhoneMoves(p)
  <2>1. row \notin {None, Gone} /\ row.role = "PARENT" /\ row.phone = p => u \in Sharers(p)
    BY <1>3 DEF Sharers, SharesPhone, IsParent
  <2>2. SharesPhone(p)' \subseteq Sharers(p)
    BY <1>3, <2>1, WriteShares
  <2>3. Copied(p)' = Copied(p) /\ Enrolling(p)' = Enrolling(p)
    BY <1>3 DEF Copied, HasCopy, Enrolling, Creates
  <2> QED
    BY <2>2, <2>3 DEF PhoneMoves, Sharers
<1>4. ASSUME NEW u \in User, Deactivate(u) PROVE \A p \in Phone : PhoneMoves(p)
  <2> DEFINE row == [users[u] EXCEPT !.active = FALSE]
  <2>1. Exists(u) /\ users' = [users EXCEPT ![u] = row] /\ req' = req
    BY <1>4 DEF Deactivate
  <2>2. row.role = users[u].role /\ row.phone = users[u].phone
    BY <2>1, RowTypes DEF Row
  <2> HIDE DEF row
  <2> QED
    BY <1>3, <2>1, <2>2
<1>5. ASSUME NEW u \in User, Delete(u) PROVE \A p \in Phone : PhoneMoves(p)
  BY <1>3, <1>5 DEF Delete
<1> QED
  BY <1>1, <1>2, <1>4, <1>5 DEF Expire, IssueInvite, TextCode, vars

LEMMA InitSharers == Init => FewSharers
<1> SUFFICES ASSUME Init, NEW p \in Phone
             PROVE  Cardinality(Sharers(p)) + Cardinality(Enrolling(p)) <= N
  BY DEF FewSharers
<1>1. Enrolling(p) = {} /\ Copied(p) = {}
  BY DEF Init, Enrolling, Creates, Copied, HasCopy, Idle
<1>2. Sharers(p) \subseteq {1}
  BY <1>1 DEF Init, Sharers, SharesPhone, IsParent, Exists
<1>3. Cardinality(Enrolling(p)) = 0 /\ IsFiniteSet({1}) /\ Cardinality({1}) = 1
  BY <1>1, FS_EmptySet, FS_Singleton
<1>4. Cardinality(Sharers(p)) \in Nat /\ Cardinality(Sharers(p)) <= 1
  BY <1>2, <1>3, FS_Subset, FS_CardinalityType
<1>5. PICK h \in Handler : TRUE
  BY AccountsConstantsOK
<1>6. Cardinality({h}) = 1 /\ Cardinality({h}) <= N /\ N \in Nat
  BY Threads, FS_Singleton
<1> QED
  BY <1>3, <1>4, <1>6

\* Where the admin's form never set a number, the parents who share it are never more than
\* the threads that enroll and edit.
THEOREM FewShare == Spec => []FewShareAPhone
<1>1. TypeInv /\ FewSharers => FewShareAPhone
  <2> SUFFICES ASSUME TypeInv, FewSharers, NEW p \in Phone, <<"phone", p>> \notin excused
               PROVE  Cardinality(SharesPhone(p)) <= Cardinality(Handler)
    BY DEF FewShareAPhone
  <2>1. Sharers(p) \subseteq User /\ SharesPhone(p) \subseteq Sharers(p)
    BY DEF Sharers, SharesPhone, Copied
  <2>2. /\ Cardinality(SharesPhone(p)) \in Nat /\ Cardinality(Sharers(p)) \in Nat
        /\ Cardinality(SharesPhone(p)) <= Cardinality(Sharers(p))
    BY <2>1, FiniteSharers, FS_Subset
  <2>3. Cardinality(Enrolling(p)) \in Nat /\ N \in Nat
    BY Threads DEF Enrolling
  <2>4. Cardinality(Sharers(p)) + Cardinality(Enrolling(p)) <= N
    BY DEF FewSharers
  <2>5. Cardinality(SharesPhone(p)) <= N
    BY <2>2, <2>3, <2>4
  <2> QED
    BY <2>5 DEF N
<1>2. TypeInv /\ FewSharers /\ [Next]_vars => (TypeInv /\ FewSharers)'
  <2> SUFFICES ASSUME TypeInv, FewSharers, [Next]_vars
               PROVE  (TypeInv /\ FewSharers)'
    OBVIOUS
  <2>1. \A p \in Phone : PhoneMoves(p)
    BY ArriveShares, ServeShares, OtherShares DEF Next, AccountStep
  <2>2. TypeInv'
    BY StepTypes
  <2> QED
    BY <2>1, <2>2, ExcusedGrows, SharersMove
<1>3. Init => TypeInv /\ FewSharers
  BY InitType, InitSharers
<1> QED
  BY <1>1, <1>2, <1>3, PTL DEF Spec
=============================================================================
