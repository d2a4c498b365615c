------------------------- MODULE MSICoherence_proofs -------------------------
(***************************************************************************)
(* Coherence where no written line is evicted, for any number of caches,   *)
(* directories and lines: one writer or readers, and readers see the       *)
(* latest store.  Where the lines in use fit into a cache, so that none is *)
(* evicted, no controller meets a message without a transition either.     *)
(***************************************************************************)
EXTENDS MSIEvictions_proofs

\* All lines have room in a cache: no replacement is ever needed.
Fitting == Cardinality(Addr) <= Assoc

-----------------------------------------------------------------------------
(* The part that a cache plays for a line.                                 *)

\* The block that an owner sends back to the directory.
AtBack(c, a, m) == In(responseNet, c, DirOf[a], m) /\ m.addr = a

\* The miss of c is still a request; it is being read or answered; it waits as a
\* request of type t in the channel to q.
Asking(c, a) == \E m : AtReq(c, a, m)
Served(c, a) == (\E m : AtMem(c, a, m)) \/ (\E n, m : AtData(c, a, n, m))
Fwd(q, a, t, r) == \E m : AtFwd(r, a, q, m) /\ m.type = t

\* The directory has named c the owner and no one else has taken over since.
Exclusive(c, a) ==
  \/ cacheState[c][a] \in {"M", "IM_A", "SM_A"}
  \/ cacheState[c][a] \in {"IM_AD", "SM_AD"} /\ ~Asking(c, a)

\* The latest block of a line with an owner is at c or on its way to c.
Token(c, a) ==
  \/ cacheState[c][a] \in {"M", "IM_A", "SM_A"}
  \/ cacheState[c][a] \in {"IM_AD", "SM_AD"} /\ Served(c, a)

\* A copy to read is at c or on its way to c.
Copy(c, a) ==
  \/ cacheState[c][a] = "S"
  \/ cacheState[c][a] = "SM_AD" /\ ~Served(c, a)
  \/ cacheState[c][a] = "IS_D" /\ Served(c, a)

\* The owner that the directory has recorded, or that it recorded last and has
\* asked to share the line.
LastOwner(q, a) == owner[a] = {q} \/ \E r \in Cache : Fwd(q, a, "GETS", r)

\* The line has an owner that has not been asked for, or has not answered.
Owned(a) == dirState[a] \in {"M", "IM_M"} \/ \E q, r \in Cache : Fwd(q, a, "GETS", r)

\* The owners of a line form a queue: each is waiting for the block of the one
\* before it, the first holds the token and the last is the one recorded.  rank
\* gives the places, from lo to hi; without an owner hi is less than lo.
QueueOf(a, rank, lo, hi) ==
  /\ \A q \in Cache : Exclusive(q, a) <=> lo <= rank[q] /\ rank[q] <= hi
  /\ \A p, q \in Cache : Exclusive(p, a) /\ rank[p] = rank[q] => p = q
  /\ \A q \in Cache : Token(q, a) <=> Exclusive(q, a) /\ rank[q] = lo
  /\ \A q \in Cache : LastOwner(q, a) <=> Exclusive(q, a) /\ rank[q] = hi
  /\ \A q, r \in Cache : Fwd(q, a, "GETM", r) =>
       Exclusive(q, a) /\ Exclusive(r, a) /\ rank[r] = rank[q] + 1
  /\ Owned(a) <=> lo <= hi

QueueInv(a) == \E rank \in [Cache -> Int], lo, hi \in Int : QueueOf(a, rank, lo, hi)

\* Every owner but the last has been asked for the line; the last, if it has been
\* asked to share it, and the requestor will be the sharers.
ForwardInv(a) ==
  /\ \A q \in Cache : Exclusive(q, a) => LastOwner(q, a) \/ \E r \in Cache : Fwd(q, a, "GETM", r)
  /\ \A q, r \in Cache : Fwd(q, a, "GETS", r) =>
       dirState[a] = "MS_D" /\ sharers[a] = {q, r}
  /\ \A q, r, s \in Cache : Fwd(q, a, "GETS", r) /\ Fwd(q, a, "GETS", s) => r = s

\* The copies that the owner's store must not leave behind are being invalidated.
TokenInv(a) ==
  Owned(a) => \E p \in Cache : Token(p, a) /\ \A q \in Cache : Copy(q, a) => InvTo(q, a, p)

\* The directory knows the copies of a line without owner.  A sharer that has
\* given its copy up is one until its write-back is taken, and may be sent an
\* invalidation; where nothing is evicted, sharers hold copies and so do the
\* caches that are sent invalidations.
CopyInv(a) ==
  /\ ~Owned(a) => \A q \in Cache : Copy(q, a) => q \in sharers[a]
  /\ Fitting /\ ~Owned(a) => \A q \in Cache : q \in sharers[a] => Copy(q, a)
  /\ Fitting => \A q, p \in Cache : InvTo(q, a, p) => Copy(q, a)

\* The block that the last owner sends back is awaited, once.
BackInv(a) ==
  /\ \A q \in Cache : \A m : AtBack(q, a, m) => dirState[a] = "MS_D" /\ ~Owned(a)
  /\ \A p, q \in Cache : \A m, k : AtBack(p, a, m) /\ AtBack(q, a, k) => p = q /\ m = k

RoleInv(a) == QueueInv(a) /\ ForwardInv(a) /\ TokenInv(a) /\ CopyInv(a) /\ BackInv(a)

-----------------------------------------------------------------------------
(* How a step changes the parts.                                           *)

SameRole(c, a) ==
  /\ Exclusive(c, a)' <=> Exclusive(c, a)
  /\ Token(c, a)' <=> Token(c, a)
  /\ Copy(c, a)' <=> Copy(c, a)

SameRoles(a) == \A c \in Cache : SameRole(c, a)
RolesExcept(a, c0) == \A c \in Cache : c # c0 => SameRole(c, a)

SameFwds(a) == \A q, r \in Cache : \A t : Fwd(q, a, t, r)' <=> Fwd(q, a, t, r)
FwdLess(a, q0, t0, r0) ==
  \A q, r \in Cache : \A t :
    Fwd(q, a, t, r)' <=> Fwd(q, a, t, r) /\ ~(q = q0 /\ t = t0 /\ r = r0)
FwdMore(a, q0, t0, r0) ==
  \A q, r \in Cache : \A t :
    Fwd(q, a, t, r)' <=> Fwd(q, a, t, r) \/ (q = q0 /\ t = t0 /\ r = r0)

SameInvs(a) == \A q, p \in Cache : InvTo(q, a, p)' <=> InvTo(q, a, p)

SameBack(a) == \A q \in Cache : \A m : AtBack(q, a, m)' <=> AtBack(q, a, m)

SameDir(a) ==
  dirState'[a] = dirState[a] /\ owner'[a] = owner[a] /\ sharers'[a] = sharers[a]

\* Nothing about the line changes but, perhaps, what the directory waits for.
LEMMA RolesKept ==
  ASSUME NEW a \in Addr, RoleInv(a), SameRoles(a), SameFwds(a), SameInvs(a), SameBack(a),
         owner'[a] = owner[a], sharers'[a] = sharers[a],
         dirState'[a] = "MS_D" <=> dirState[a] = "MS_D",
         dirState'[a] \in {"M", "IM_M"} <=> dirState[a] \in {"M", "IM_M"}
  PROVE  RoleInv(a)'
<1>1. \A q \in Cache : LastOwner(q, a)' <=> LastOwner(q, a)
  BY DEF LastOwner, SameFwds
<1>2. Owned(a)' <=> Owned(a)
  BY DEF Owned, SameFwds
<1>3. ForwardInv(a)'
  BY <1>1 DEF RoleInv, ForwardInv, SameRoles, SameRole, SameFwds
<1>4. QueueInv(a)'
  <2>1. PICK rank \in [Cache -> Int], lo \in Int, hi \in Int : QueueOf(a, rank, lo, hi)
    BY DEF RoleInv, QueueInv
  <2>2. QueueOf(a, rank, lo, hi)'
    BY <1>1, <1>2, <2>1 DEF QueueOf, SameRoles, SameRole, SameFwds
  <2>3. QED  BY <2>2 DEF QueueInv
<1>5. TokenInv(a)'
  BY <1>2 DEF RoleInv, TokenInv, SameRoles, SameRole, SameInvs
<1>6. CopyInv(a)'
  BY <1>2 DEF RoleInv, CopyInv, SameRoles, SameRole, SameInvs
<1>7. BackInv(a)'
  BY <1>2 DEF RoleInv, BackInv, SameBack
<1>8. QED  BY <1>3, <1>4, <1>5, <1>6, <1>7 DEF RoleInv

\* A copy is invalidated.
LEMMA CopyLost ==
  ASSUME NEW a \in Addr, RoleInv(a), NEW q0 \in Cache, NEW p0 \in Cache,
         InvTo(q0, a, p0), \A q \in Cache : InvTo(q0, a, q) => q = p0,
         Owned(a),
         RolesExcept(a, q0), Exclusive(q0, a)' <=> Exclusive(q0, a),
         Token(q0, a)' <=> Token(q0, a), ~Copy(q0, a)',
         \A q, p \in Cache : InvTo(q, a, p)' <=> InvTo(q, a, p) /\ ~(q = q0 /\ p = p0),
         SameFwds(a), SameBack(a), SameDir(a)
  PROVE  RoleInv(a)'
<1>1. \A q \in Cache : LastOwner(q, a)' <=> LastOwner(q, a)
  BY DEF LastOwner, SameFwds, SameDir
<1>2. Owned(a)' /\ Owned(a)
  BY DEF Owned, SameFwds, SameDir
<1>3. \A q \in Cache : /\ Exclusive(q, a)' <=> Exclusive(q, a)
                       /\ Token(q, a)' <=> Token(q, a)
                       /\ Copy(q, a)' <=> Copy(q, a) /\ q # q0
  BY DEF RolesExcept, SameRole
<1>4. ForwardInv(a)'
  BY <1>1, <1>3 DEF RoleInv, ForwardInv, SameFwds, SameDir
<1>5. QueueInv(a)'
  <2>1. PICK rank \in [Cache -> Int], lo \in Int, hi \in Int : QueueOf(a, rank, lo, hi)
    BY DEF RoleInv, QueueInv
  <2>2. QueueOf(a, rank, lo, hi)'
    BY <1>1, <1>2, <1>3, <2>1 DEF QueueOf, SameFwds
  <2>3. QED  BY <2>2 DEF QueueInv
<1>6. TokenInv(a)'
  BY <1>2, <1>3 DEF RoleInv, TokenInv
<1>7. CopyInv(a)'
  BY <1>2, <1>3 DEF RoleInv, CopyInv
<1>8. BackInv(a)'
  BY <1>2 DEF RoleInv, BackInv, SameBack
<1>9. QED  BY <1>4, <1>5, <1>6, <1>7, <1>8 DEF RoleInv

\* A copy is given up: the directory may go on counting its cache as a sharer.
LEMMA CopyDropped ==
  ASSUME NEW a \in Addr, RoleInv(a), NEW c \in Cache, ~Fitting,
         RolesExcept(a, c), Exclusive(c, a)' <=> Exclusive(c, a),
         Token(c, a)' <=> Token(c, a), ~Copy(c, a)',
         SameFwds(a), SameInvs(a), SameBack(a), SameDir(a)
  PROVE  RoleInv(a)'
<1>1. \A q \in Cache : LastOwner(q, a)' <=> LastOwner(q, a)
  BY DEF LastOwner, SameFwds, SameDir
<1>2. Owned(a)' <=> Owned(a)
  BY DEF Owned, SameFwds, SameDir
<1>3. \A q \in Cache : /\ Exclusive(q, a)' <=> Exclusive(q, a)
                       /\ Token(q, a)' <=> Token(q, a)
                       /\ Copy(q, a)' => Copy(q, a)
  BY DEF RolesExcept, SameRole
<1>4. ForwardInv(a)'
  BY <1>1, <1>3 DEF RoleInv, ForwardInv, SameFwds, SameDir
<1>5. QueueInv(a)'
  <2>1. PICK rank \in [Cache -> Int], lo \in Int, hi \in Int : QueueOf(a, rank, lo, hi)
    BY DEF RoleInv, QueueInv
  <2>2. QueueOf(a, rank, lo, hi)'
    BY <1>1, <1>2, <1>3, <2>1 DEF QueueOf, SameFwds
  <2>3. QED  BY <2>2 DEF QueueInv
<1>6. TokenInv(a)'
  BY <1>2, <1>3 DEF RoleInv, TokenInv, SameInvs
<1>7. CopyInv(a)'
  BY <1>2, <1>3 DEF RoleInv, CopyInv, SameDir
<1>8. BackInv(a)'
  BY <1>2 DEF RoleInv, BackInv, SameBack, SameDir
<1>9. QED  BY <1>4, <1>5, <1>6, <1>7, <1>8 DEF RoleInv

\* A sharer that has given its copy up is struck from the sharers, and the line
\* may be left without any.
LEMMA SharerDropped ==
  ASSUME NEW a \in Addr, RoleInv(a), NEW c \in Cache, ~Fitting,
         ~Exclusive(c, a), ~Copy(c, a), \A q \in Cache : \A t : ~Fwd(q, a, t, c),
         SameRoles(a), SameFwds(a), SameInvs(a), SameBack(a),
         owner'[a] = owner[a], sharers'[a] \in {sharers[a], sharers[a] \ {c}},
         dirState'[a] = dirState[a] \/ (dirState[a] = "S" /\ dirState'[a] = "I")
  PROVE  RoleInv(a)'
<1>1. \A q \in Cache : LastOwner(q, a)' <=> LastOwner(q, a)
  BY DEF LastOwner, SameFwds
<1>2. Owned(a)' <=> Owned(a)
  BY DEF Owned, SameFwds
<1>3. PICK rank \in [Cache -> Int], lo \in Int, hi \in Int : QueueOf(a, rank, lo, hi)
  BY DEF RoleInv, QueueInv
<1>4. \A q, r \in Cache : Fwd(q, a, "GETS", r) => q # c /\ r # c
  <2>1. \A q, r \in Cache : Fwd(q, a, "GETS", r) => Exclusive(q, a)
    BY <1>3 DEF QueueOf, LastOwner
  <2>2. QED  BY <2>1
<1>5. ForwardInv(a)'
  <2>1. \A q, r \in Cache : Fwd(q, a, "GETS", r) => dirState'[a] = "MS_D" /\ sharers'[a] = {q, r}
    BY <1>4 DEF RoleInv, ForwardInv
  <2>2. QED
    BY <1>1, <2>1 DEF RoleInv, ForwardInv, SameRoles, SameRole, SameFwds
<1>6. QueueInv(a)'
  <2>1. QueueOf(a, rank, lo, hi)'
    BY <1>1, <1>2, <1>3 DEF QueueOf, SameRoles, SameRole, SameFwds
  <2>2. QED  BY <2>1 DEF QueueInv
<1>7. TokenInv(a)'
  BY <1>2 DEF RoleInv, TokenInv, SameRoles, SameRole, SameInvs
<1>8. CopyInv(a)'
  BY <1>2 DEF RoleInv, CopyInv, SameRoles, SameRole
<1>9. BackInv(a)'
  BY <1>2 DEF RoleInv, BackInv, SameBack
<1>10. QED  BY <1>5, <1>6, <1>7, <1>8, <1>9 DEF RoleInv

\* The owner answers a GETS: it keeps a copy and the block goes back.
LEMMA OwnerShares ==
  ASSUME NEW a \in Addr, RoleInv(a), NEW o \in Cache, NEW r \in Cache, NEW m0, o # r,
         Fwd(o, a, "GETS", r), Token(o, a), owner[a] = {},
         \A q \in Cache : ~InvTo(q, a, o),
         ~Exclusive(o, a)', ~Token(o, a)', Copy(o, a)',
         Exclusive(r, a)' <=> Exclusive(r, a), Token(r, a)' <=> Token(r, a), Copy(r, a)',
         \A c \in Cache : c \notin {o, r} => SameRole(c, a),
         FwdLess(a, o, "GETS", r), SameInvs(a), SameDir(a),
         \A q \in Cache : \A m : AtBack(q, a, m)' <=> AtBack(q, a, m) \/ (q = o /\ m = m0)
  PROVE  RoleInv(a)'
<1>1. PICK rank \in [Cache -> Int], lo \in Int, hi \in Int : QueueOf(a, rank, lo, hi)
  BY DEF RoleInv, QueueInv
<1>2. dirState[a] = "MS_D" /\ sharers[a] = {o, r} /\ Owned(a)
  BY DEF RoleInv, ForwardInv, Owned
<1>3. rank[o] = lo /\ rank[o] = hi /\ Exclusive(o, a)
  BY <1>1 DEF QueueOf, LastOwner
<1>4. \A q \in Cache : Exclusive(q, a) => q = o
  BY <1>1, <1>3 DEF QueueOf
<1>5. \A q, s \in Cache : ~Fwd(q, a, "GETS", s)'
  <2>1. \A q, s \in Cache : Fwd(q, a, "GETS", s) => q = o /\ s = r
    BY <1>1, <1>4 DEF QueueOf, LastOwner, RoleInv, ForwardInv
  <2>2. QED  BY <2>1 DEF FwdLess
<1>6. \A q, s \in Cache : ~Fwd(q, a, "GETM", s)'
  <2>1. \A q, s \in Cache : ~Fwd(q, a, "GETM", s)
    BY <1>1, <1>3, <1>4 DEF QueueOf
  <2>2. QED  BY <2>1 DEF FwdLess
<1>7. ~Owned(a)' /\ \A q \in Cache : ~LastOwner(q, a)'
  BY <1>2, <1>5 DEF Owned, LastOwner, SameDir
<1>8. \A q \in Cache : ~Exclusive(q, a)' /\ ~Token(q, a)'
  <2>1. \A q \in Cache : Token(q, a) => Exclusive(q, a)  BY <1>1 DEF QueueOf
  <2>2. QED  BY <1>4, <2>1 DEF SameRole
<1>9. QueueInv(a)'
  <2>1. PICK rk \in [Cache -> Int] : \A q \in Cache : rk[q] = 0
    <3>1. [q \in Cache |-> 0] \in [Cache -> Int]  OBVIOUS
    <3>2. QED  BY <3>1
  <2>2. QueueOf(a, rk, 2, 1)'
    BY <1>6, <1>7, <1>8, <2>1 DEF QueueOf
  <2>3. QED  BY <2>2 DEF QueueInv
<1>10. ForwardInv(a)'
  BY <1>5, <1>8 DEF ForwardInv
<1>11. TokenInv(a)'
  BY <1>7 DEF TokenInv
<1>12. CopyInv(a)'
  <2>1. \A q \in Cache : ~Copy(q, a)
    <3>1. \A q \in Cache : Token(q, a) => q = o  BY <1>1, <1>4 DEF QueueOf
    <3>2. QED  BY <1>2, <3>1 DEF RoleInv, TokenInv
  <2>2. \A q \in Cache : Copy(q, a)' <=> q \in {o, r}
    BY <2>1 DEF SameRole
  <2>3. QED  BY <1>2, <2>1, <2>2 DEF RoleInv, CopyInv, SameInvs, SameDir
<1>13. BackInv(a)'
  BY <1>2, <1>7 DEF RoleInv, BackInv, SameDir
<1>14. QED  BY <1>9, <1>10, <1>11, <1>12, <1>13 DEF RoleInv

\* The first owner of the queue hands the block on to the next.
LEMMA OwnerYields ==
  ASSUME NEW a \in Addr, RoleInv(a), NEW o \in Cache, NEW r \in Cache,
         Fwd(o, a, "GETM", r), Token(o, a), \A q \in Cache : ~InvTo(q, a, o),
         ~Exclusive(o, a)', ~Token(o, a)', ~Copy(o, a)',
         Exclusive(r, a)' <=> Exclusive(r, a), Token(r, a)', ~Copy(r, a)',
         \A c \in Cache : c \notin {o, r} => SameRole(c, a),
         FwdLess(a, o, "GETM", r), SameInvs(a), SameBack(a), SameDir(a)
  PROVE  RoleInv(a)'
<1>1. PICK rank \in [Cache -> Int], lo \in Int, hi \in Int : QueueOf(a, rank, lo, hi)
  BY DEF RoleInv, QueueInv
<1>2. /\ Exclusive(o, a) /\ Exclusive(r, a) /\ rank[o] = lo /\ rank[r] = lo + 1 /\ lo + 1 <= hi
      /\ o # r
  BY <1>1 DEF QueueOf
<1>3. \A q \in Cache : LastOwner(q, a)' <=> LastOwner(q, a)
  BY DEF LastOwner, FwdLess, SameDir
<1>4. Owned(a)' /\ Owned(a)
  <2>1. Owned(a)' <=> Owned(a)  BY DEF Owned, FwdLess, SameDir
  <2>2. QED  BY <1>1, <1>2, <2>1 DEF QueueOf
<1>5. \A q \in Cache : Exclusive(q, a)' <=> Exclusive(q, a) /\ q # o
  BY DEF SameRole
<1>6. \A q \in Cache : Token(q, a)' <=> q = r
  <2>1. \A q \in Cache : Token(q, a) => q = o  BY <1>1, <1>2 DEF QueueOf
  <2>2. QED  BY <1>2, <2>1 DEF SameRole
<1>7. \A q \in Cache : ~Copy(q, a) /\ ~Copy(q, a)'
  <2>1. \A q \in Cache : Token(q, a) => q = o  BY <1>1, <1>2 DEF QueueOf
  <2>2. \A q \in Cache : ~Copy(q, a)  BY <1>4, <2>1 DEF RoleInv, TokenInv
  <2>3. QED  BY <2>2 DEF SameRole
<1>8. \A q, s \in Cache : Fwd(q, a, "GETM", s)' <=> Fwd(q, a, "GETM", s) /\ q # o
  <2>1. \A s \in Cache : Fwd(o, a, "GETM", s) => s = r
    BY <1>1, <1>2 DEF QueueOf
  <2>2. QED  BY <2>1 DEF FwdLess
<1>9. QueueInv(a)'
  <2>1. \A q \in Cache : Exclusive(q, a)' <=> lo + 1 <= rank[q] /\ rank[q] <= hi
    BY <1>1, <1>2, <1>5 DEF QueueOf
  <2>2. \A p, q \in Cache : Exclusive(p, a)' /\ rank[p] = rank[q] => p = q
    BY <1>1, <1>5 DEF QueueOf
  <2>3. \A q \in Cache : Token(q, a)' <=> Exclusive(q, a)' /\ rank[q] = lo + 1
    BY <1>1, <1>2, <1>5, <1>6 DEF QueueOf
  <2>4. \A q \in Cache : LastOwner(q, a)' <=> Exclusive(q, a)' /\ rank[q] = hi
    BY <1>1, <1>2, <1>3, <1>5 DEF QueueOf
  <2>5. \A q, s \in Cache : Fwd(q, a, "GETM", s)' =>
          Exclusive(q, a)' /\ Exclusive(s, a)' /\ rank[s] = rank[q] + 1
    BY <1>1, <1>2, <1>5, <1>8 DEF QueueOf
  <2>6. QueueOf(a, rank, lo + 1, hi)'
    BY <1>2, <1>4, <2>1, <2>2, <2>3, <2>4, <2>5 DEF QueueOf
  <2>7. lo + 1 \in Int  OBVIOUS
  <2>8. QED  BY <2>6, <2>7 DEF QueueInv
<1>10. ForwardInv(a)'
  BY <1>3, <1>5, <1>8 DEF RoleInv, ForwardInv, FwdLess, SameDir
<1>11. TokenInv(a)'
  BY <1>6, <1>7 DEF TokenInv
<1>12. CopyInv(a)'
  BY <1>4, <1>7 DEF RoleInv, CopyInv, SameInvs
<1>13. BackInv(a)'
  BY <1>4 DEF RoleInv, BackInv, SameBack
<1>14. QED  BY <1>9, <1>10, <1>11, <1>12, <1>13 DEF RoleInv

\* A cache is given a copy of a line without owner.
LEMMA CopyGiven ==
  ASSUME NEW a \in Addr, RoleInv(a), NEW c \in Cache,
         dirState[a] \in {"I", "S"}, dirState'[a] \in {"IS_M", "S"},
         owner'[a] = owner[a], sharers'[a] = sharers[a] \cup {c},
         RolesExcept(a, c), Exclusive(c, a)' <=> Exclusive(c, a), Token(c, a)' <=> Token(c, a),
         Copy(c, a)', SameFwds(a), SameInvs(a), SameBack(a)
  PROVE  RoleInv(a)'
<1>1. \A q, r \in Cache : ~Fwd(q, a, "GETS", r) /\ ~Fwd(q, a, "GETS", r)'
  BY DEF RoleInv, ForwardInv, SameFwds
<1>2. ~Owned(a) /\ ~Owned(a)'
  BY <1>1 DEF Owned
<1>3. \A q \in Cache : LastOwner(q, a)' <=> LastOwner(q, a)
  BY <1>1 DEF LastOwner
<1>4. \A q \in Cache : /\ Exclusive(q, a)' <=> Exclusive(q, a)
                       /\ Token(q, a)' <=> Token(q, a)
                       /\ Copy(q, a)' <=> Copy(q, a) \/ q = c
  BY DEF RolesExcept, SameRole
<1>5. QueueInv(a)'
  <2>1. PICK rank \in [Cache -> Int], lo \in Int, hi \in Int : QueueOf(a, rank, lo, hi)
    BY DEF RoleInv, QueueInv
  <2>2. QueueOf(a, rank, lo, hi)'
    BY <1>2, <1>3, <1>4, <2>1 DEF QueueOf, SameFwds
  <2>3. QED  BY <2>2 DEF QueueInv
<1>6. ForwardInv(a)'
  BY <1>1, <1>3, <1>4 DEF RoleInv, ForwardInv, SameFwds
<1>7. TokenInv(a)'
  BY <1>2 DEF TokenInv
<1>8. CopyInv(a)'
  BY <1>2, <1>4 DEF RoleInv, CopyInv, SameInvs
<1>9. BackInv(a)'
  BY DEF RoleInv, BackInv, SameBack
<1>10. QED  BY <1>5, <1>6, <1>7, <1>8, <1>9 DEF RoleInv

\* A cache is made the owner of a line without owner, and the other copies are
\* invalidated.
LEMMA OwnerMade ==
  ASSUME NEW a \in Addr, RoleInv(a), NEW c \in Cache,
         dirState[a] \in {"I", "S"}, dirState'[a] \in {"IM_M", "M"},
         owner'[a] = {c}, sharers'[a] = {},
         \A q, p \in Cache : ~InvTo(q, a, p),
         RolesExcept(a, c), Exclusive(c, a)', Token(c, a)', ~Copy(c, a)', SameFwds(a),
         \A q, p \in Cache : InvTo(q, a, p)' <=> p = c /\ q \in sharers[a] /\ q # c,
         SameBack(a)
  PROVE  RoleInv(a)'
<1>1. \A q, r \in Cache : ~Fwd(q, a, "GETS", r) /\ ~Fwd(q, a, "GETS", r)'
  BY DEF RoleInv, ForwardInv, SameFwds
<1>2. ~Owned(a) /\ Owned(a)'
  BY <1>1 DEF Owned
<1>3. PICK rank \in [Cache -> Int], lo \in Int, hi \in Int : QueueOf(a, rank, lo, hi)
  BY DEF RoleInv, QueueInv
<1>4. \A q \in Cache : ~Exclusive(q, a) /\ ~Token(q, a)
  BY <1>2, <1>3 DEF QueueOf
<1>5. \A q, r \in Cache : ~Fwd(q, a, "GETM", r)'
  BY <1>3, <1>4 DEF QueueOf, SameFwds
<1>6. \A q \in Cache : /\ Exclusive(q, a)' <=> q = c
                       /\ Token(q, a)' <=> q = c
                       /\ Copy(q, a)' <=> Copy(q, a) /\ q # c
  BY <1>4 DEF RolesExcept, SameRole
<1>7. \A q \in Cache : LastOwner(q, a)' <=> q = c
  BY <1>1 DEF LastOwner
<1>8. QueueInv(a)'
  <2>1. PICK rk \in [Cache -> Int] : \A q \in Cache : rk[q] = IF q = c THEN 0 ELSE 1
    <3>1. [q \in Cache |-> IF q = c THEN 0 ELSE 1] \in [Cache -> Int]  OBVIOUS
    <3>2. QED  BY <3>1
  <2>2. QueueOf(a, rk, 0, 0)'
    BY <1>2, <1>5, <1>6, <1>7, <2>1 DEF QueueOf
  <2>3. QED  BY <2>2 DEF QueueInv
<1>9. ForwardInv(a)'
  BY <1>1, <1>6, <1>7 DEF ForwardInv
<1>10. TokenInv(a)'
  BY <1>2, <1>6 DEF RoleInv, TokenInv, CopyInv
<1>11. CopyInv(a)'
  BY <1>2, <1>6 DEF RoleInv, CopyInv
<1>12. BackInv(a)'
  BY DEF RoleInv, BackInv, SameBack
<1>13. QED  BY <1>8, <1>9, <1>10, <1>11, <1>12 DEF RoleInv

\* The owner is asked to share the line.
LEMMA ShareAsked ==
  ASSUME NEW a \in Addr, RoleInv(a), NEW c \in Cache, NEW o \in Cache,
         dirState[a] = "M", owner[a] = {o}, dirState'[a] = "MS_D", owner'[a] = {},
         sharers'[a] = {o, c}, SameRoles(a), FwdMore(a, o, "GETS", c), SameInvs(a), SameBack(a)
  PROVE  RoleInv(a)'
<1>1. \A q, r \in Cache : /\ ~Fwd(q, a, "GETS", r)
                          /\ Fwd(q, a, "GETS", r)' <=> q = o /\ r = c
                          /\ Fwd(q, a, "GETM", r)' <=> Fwd(q, a, "GETM", r)
  BY DEF RoleInv, ForwardInv, FwdMore
<1>2. Owned(a) /\ Owned(a)'
  BY <1>1 DEF Owned
<1>3. \A q \in Cache : LastOwner(q, a)' <=> LastOwner(q, a)
  BY <1>1 DEF LastOwner
<1>4. QueueInv(a)'
  <2>1. PICK rank \in [Cache -> Int], lo \in Int, hi \in Int : QueueOf(a, rank, lo, hi)
    BY DEF RoleInv, QueueInv
  <2>2. QueueOf(a, rank, lo, hi)'
    BY <1>1, <1>2, <1>3, <2>1 DEF QueueOf, SameRoles, SameRole
  <2>3. QED  BY <2>2 DEF QueueInv
<1>5. ForwardInv(a)'
  BY <1>1, <1>3 DEF RoleInv, ForwardInv, SameRoles, SameRole
<1>6. TokenInv(a)'
  BY <1>2 DEF RoleInv, TokenInv, SameRoles, SameRole, SameInvs
<1>7. CopyInv(a)'
  BY <1>2 DEF RoleInv, CopyInv, SameRoles, SameRole, SameInvs
<1>8. BackInv(a)'
  BY DEF RoleInv, BackInv, SameBack
<1>9. QED  BY <1>4, <1>5, <1>6, <1>7, <1>8 DEF RoleInv

\* A cache is put at the end of the queue of owners.
LEMMA OwnerQueued ==
  ASSUME NEW a \in Addr, RoleInv(a), NEW c \in Cache, NEW o \in Cache,
         dirState[a] = "M", owner[a] = {o}, dirState'[a] = "M", owner'[a] = {c},
         ~Exclusive(c, a), Exclusive(c, a)', Token(c, a)' <=> Token(c, a),
         Copy(c, a)' <=> Copy(c, a), RolesExcept(a, c), FwdMore(a, o, "GETM", c),
         SameInvs(a), SameBack(a)
  PROVE  RoleInv(a)'
<1>1. \A q, r \in Cache : /\ ~Fwd(q, a, "GETS", r) /\ ~Fwd(q, a, "GETS", r)'
                          /\ Fwd(q, a, "GETM", r)' <=> Fwd(q, a, "GETM", r) \/ (q = o /\ r = c)
  BY DEF RoleInv, ForwardInv, FwdMore
<1>2. Owned(a) /\ Owned(a)'
  BY DEF Owned
<1>3. \A q \in Cache : /\ LastOwner(q, a) <=> q = o
                       /\ LastOwner(q, a)' <=> q = c
  BY <1>1 DEF LastOwner
<1>4. \A q \in Cache : /\ Exclusive(q, a)' <=> Exclusive(q, a) \/ q = c
                       /\ Token(q, a)' <=> Token(q, a)
                       /\ Copy(q, a)' <=> Copy(q, a)
  BY DEF RolesExcept, SameRole
<1>5. QueueInv(a)'
  <2>1. PICK rank \in [Cache -> Int], lo \in Int, hi \in Int : QueueOf(a, rank, lo, hi)
    BY DEF RoleInv, QueueInv
  <2>2. PICK rk \in [Cache -> Int] : \A q \in Cache :
          rk[q] = IF q = c THEN hi + 1 ELSE IF Exclusive(q, a) THEN rank[q] ELSE hi + 2
    <3> DEFINE f == [q \in Cache |->
                       IF q = c THEN hi + 1 ELSE IF Exclusive(q, a) THEN rank[q] ELSE hi + 2]
    <3>1. f \in [Cache -> Int]  OBVIOUS
    <3>2. QED  BY <3>1
  <2>3. lo <= hi /\ Exclusive(o, a) /\ rank[o] = hi /\ o # c
    BY <1>2, <1>3, <2>1 DEF QueueOf
  <2>4. \A q \in Cache : Exclusive(q, a)' <=> lo <= rk[q] /\ rk[q] <= hi + 1
    BY <1>4, <2>1, <2>2, <2>3 DEF QueueOf
  <2>5. \A p, q \in Cache : Exclusive(p, a)' /\ rk[p] = rk[q] => p = q
    BY <1>4, <2>1, <2>2 DEF QueueOf
  <2>6. \A q \in Cache : Token(q, a)' <=> Exclusive(q, a)' /\ rk[q] = lo
    BY <1>4, <2>1, <2>2, <2>3 DEF QueueOf
  <2>7. \A q \in Cache : LastOwner(q, a)' <=> Exclusive(q, a)' /\ rk[q] = hi + 1
    BY <1>3, <1>4, <2>1, <2>2 DEF QueueOf
  <2>8. \A q, r \in Cache : Fwd(q, a, "GETM", r)' =>
          Exclusive(q, a)' /\ Exclusive(r, a)' /\ rk[r] = rk[q] + 1
    BY <1>1, <1>4, <2>1, <2>2, <2>3 DEF QueueOf
  <2>9. lo <= hi + 1 /\ hi + 1 \in Int  BY <2>3
  <2>10. QueueOf(a, rk, lo, hi + 1)'
    BY <1>2, <2>4, <2>5, <2>6, <2>7, <2>8, <2>9 DEF QueueOf
  <2>11. QED  BY <2>9, <2>10 DEF QueueInv
<1>6. ForwardInv(a)'
  BY <1>1, <1>3, <1>4 DEF RoleInv, ForwardInv
<1>7. TokenInv(a)'
  BY <1>2, <1>4 DEF RoleInv, TokenInv, SameInvs
<1>8. CopyInv(a)'
  BY <1>2, <1>4 DEF RoleInv, CopyInv, SameInvs
<1>9. BackInv(a)'
  BY DEF RoleInv, BackInv, SameBack
<1>10. QED  BY <1>5, <1>6, <1>7, <1>8, <1>9 DEF RoleInv

\* The block is back at the directory.
LEMMA BlockBack ==
  ASSUME NEW a \in Addr, RoleInv(a), NEW c \in Cache, NEW m0, AtBack(c, a, m0),
         dirState'[a] = "MS_M", owner'[a] = owner[a], sharers'[a] = sharers[a],
         SameRoles(a), SameFwds(a), SameInvs(a),
         \A q \in Cache : \A m : AtBack(q, a, m)' <=> AtBack(q, a, m) /\ ~(q = c /\ m = m0)
  PROVE  RoleInv(a)'
<1>1. ~Owned(a) /\ dirState[a] = "MS_D"
  BY DEF RoleInv, BackInv
<1>2. \A q, r \in Cache : ~Fwd(q, a, "GETS", r) /\ ~Fwd(q, a, "GETS", r)'
  BY <1>1 DEF Owned, SameFwds
<1>3. ~Owned(a)' /\ \A q \in Cache : LastOwner(q, a)' <=> LastOwner(q, a)
  BY <1>2 DEF Owned, LastOwner
<1>4. QueueInv(a)'
  <2>1. PICK rank \in [Cache -> Int], lo \in Int, hi \in Int : QueueOf(a, rank, lo, hi)
    BY DEF RoleInv, QueueInv
  <2>2. QueueOf(a, rank, lo, hi)'
    BY <1>1, <1>3, <2>1 DEF QueueOf, SameRoles, SameRole, SameFwds
  <2>3. QED  BY <2>2 DEF QueueInv
<1>5. ForwardInv(a)'
  BY <1>2, <1>3 DEF RoleInv, ForwardInv, SameRoles, SameRole, SameFwds
<1>6. TokenInv(a)'
  BY <1>3 DEF TokenInv
<1>7. CopyInv(a)'
  BY <1>1, <1>3 DEF RoleInv, CopyInv, SameRoles, SameRole, SameInvs
<1>8. BackInv(a)'
  BY DEF RoleInv, BackInv
<1>9. QED  BY <1>4, <1>5, <1>6, <1>7, <1>8 DEF RoleInv

\* The cache with the token and no invalidation to wait for is alone with the line.
LEMMA WriterAlone ==
  ASSUME NEW a \in Addr, RoleInv(a), NEW c \in Cache, Token(c, a), \A q \in Cache : ~InvTo(q, a, c)
  PROVE  /\ \A q \in Cache : ~Copy(q, a) /\ (Token(q, a) => q = c)
         /\ \A q \in Cache : \A m : ~AtBack(q, a, m)
         /\ Exclusive(c, a) /\ Owned(a)
<1>1. PICK rank \in [Cache -> Int], lo \in Int, hi \in Int : QueueOf(a, rank, lo, hi)
  BY DEF RoleInv, QueueInv
<1>2. Exclusive(c, a) /\ rank[c] = lo /\ lo <= hi /\ Owned(a)
  BY <1>1 DEF QueueOf
<1>3. \A q \in Cache : Token(q, a) => q = c
  BY <1>1, <1>2 DEF QueueOf
<1>4. \A q \in Cache : ~Copy(q, a)
  BY <1>2, <1>3 DEF RoleInv, TokenInv
<1>5. QED  BY <1>2, <1>3, <1>4 DEF RoleInv, BackInv

-----------------------------------------------------------------------------
(* Nothing is evicted.                                                     *)

\* Only messages of the types K are in the network.
Carries(net, S, D, K) == \A s \in S, d \in D : \A m : In(net, s, d, m) => m.type \in K

EvictStates == {"MI_A", "SI_A", "II_A"}

\* No line is being evicted and no write-back or its acknowledgement is on its way.
NoEviction ==
  /\ Carries(requestNet, Cache, Dir, GetTypes)
  /\ Carries(forwardNet, Dir, Cache, FwdTypes)
  /\ \A c \in Cache, a \in Addr : cacheState[c][a] \notin EvictStates
  /\ \A a \in Addr : dirState[a] # "MI_M"

LEMMA CarriesMore ==
  ASSUME NEW S, NEW D, NEW T, NEW K, NEW net, Net(net, S, D, T), Carries(net, S, D, K),
         NEW src \in S, NEW msg \in T, msg.type \in K, NEW new,
         (\E dst \in D : new = Send(net, src, dst, msg)) \/
         (\E dsts : new = Multicast(net, src, dsts, msg))
  PROVE  Carries(new, S, D, K)
<1>1. CASE \E dst \in D : new = Send(net, src, dst, msg)
  <2>1. PICK dst \in D : new = Send(net, src, dst, msg)  BY <1>1
  <2>2. \A s \in S, d \in D : \A m :
          In(new, s, d, m) <=> In(net, s, d, m) \/ (s = src /\ d = dst /\ m = msg)
    BY <2>1, SendView
  <2>3. QED  BY <2>2 DEF Carries
<1>2. CASE \E dsts : new = Multicast(net, src, dsts, msg)
  <2>1. PICK dsts : new = Multicast(net, src, dsts, msg)  BY <1>2
  <2>2. \A s \in S, d \in D : \A m :
          In(new, s, d, m) <=> In(net, s, d, m) \/ (s = src /\ d \in dsts /\ m = msg)
    BY <2>1, MulticastView
  <2>3. QED  BY <2>2 DEF Carries
<1>3. QED  BY <1>1, <1>2

LEMMA CarriesLess ==
  ASSUME NEW S, NEW D, NEW T, NEW K, NEW net, Net(net, S, D, T), Carries(net, S, D, K),
         NEW src \in S, NEW dst \in D, net[src][dst] # <<>>, NEW new, new = Pop(net, src, dst)
  PROVE  Carries(new, S, D, K) /\ Head(net[src][dst]).type \in K
<1>1. AllDistinct(net, {})  BY DEF AllDistinct, Distinct
<1>2. PICK m : m = Head(net[src][dst])  OBVIOUS
<1>3. /\ In(net, src, dst, m)
      /\ \A s \in S, d \in D : \A k : In(new, s, d, k) => In(net, s, d, k)
  BY <1>1, <1>2, PopView
<1>4. QED  BY <1>2, <1>3 DEF Carries

LEMMA Nets ==
  ASSUME TypeOK
  PROVE  /\ Net(requestNet, Cache, Dir, RequestMsg)
         /\ Net(forwardNet, Dir, Cache, ForwardMsg)
         /\ Net(responseNet, Node, Node, ResponseMsg)
BY DEF TypeOK, NetTypeOK, Net

\* The message at the head of a channel is in it.
LEMMA HeadIn ==
  ASSUME NEW S, NEW D, NEW T, NEW net, Net(net, S, D, T), NEW src \in S, NEW dst \in D,
         net[src][dst] # <<>>, NEW m, m = Head(net[src][dst])
  PROVE  m \in T /\ In(net, src, dst, m)
<1>1. net[src][dst] \in Seq(T)  BY DEF Net
<1>2. Distinct(net[src][dst], {})  BY DEF Distinct
<1>3. Head(net[src][dst]) \in Range(net[src][dst])  BY <1>1, <1>2, TailRange
<1>4. m \in T  BY <1>1, HeadTailProperties
<1>5. QED  BY <1>3, <1>4 DEF In

\* A cache with a line that it does not hold has room for it.
LEMMA RoomLeft ==
  ASSUME TypeOK, Fitting, NEW c \in Cache, NEW a \in Addr
  PROVE  Fits(c, a)
<1>1. SUFFICES ASSUME cacheState[c][a] = "I" PROVE Cardinality(Resident(c)) < Assoc
  BY DEF Fits
<1>2. Resident(c) \subseteq Addr \ {a}
  BY <1>1 DEF Resident
<1>3. IsFiniteSet(Addr)
  BY WorkloadAssumption
<1>4. /\ IsFiniteSet(Addr \ {a}) /\ Cardinality(Addr \ {a}) = Cardinality(Addr) - 1
      /\ Cardinality(Addr) \in Nat
  BY <1>3, FS_RemoveElement, FS_CardinalityType
<1>5. Cardinality(Resident(c)) \in Nat /\ Cardinality(Resident(c)) <= Cardinality(Addr \ {a})
  BY <1>2, <1>4, FS_Subset, FS_CardinalityType
<1>6. Assoc \in Nat  BY CacheAssumption
<1>7. QED  BY <1>4, <1>5, <1>6 DEF Fitting

LEMMA NoEvictionQuiet ==
  ASSUME NoEviction, UNCHANGED <<requestNet, forwardNet, cacheState, dirState>>
  PROVE  NoEviction'
BY DEF NoEviction, Carries

\* The processor's requests evict nothing.
LEMMA CacheMandatoryKeeps ==
  ASSUME TypeOK, NoEviction, NEW c \in Cache, NEW a \in Addr, CacheMandatory(c, a)
  PROVE  NoEviction'
<1>1. MandatoryStep(c, a) /\ dirState' = dirState  BY DEF CacheMandatory, dirVars
<1>2. CASE Miss(c, a) \/ Upgrade(c, a)
  <2>1. PICK type \in GetTypes, s \in {"IS_D", "IM_AD", "SM_AD"} :
          sendRequest(c, a, type, None) /\ setCacheState(c, a, s)
    BY <1>2 DEF Miss, Upgrade, GetTypes
  <2>2. forwardNet' = forwardNet  BY <1>2 DEF Miss, Upgrade
  <2>3. PICK m : m = [type |-> type, addr |-> a, data |-> None]  OBVIOUS
  <2>4. m \in RequestMsg /\ m.type \in GetTypes
    BY <2>3 DEF RequestMsg, DataBlk, GetTypes
  <2>5. DirOf[a] \in Dir /\ requestNet' = Send(requestNet, c, DirOf[a], m)
    BY <2>1, <2>3, Places DEF sendRequest
  <2>6. Carries(requestNet', Cache, Dir, GetTypes)
    BY <2>4, <2>5, Nets, CarriesMore DEF NoEviction
  <2>7. \A x \in Cache, y \in Addr : cacheState'[x][y] \notin EvictStates
    BY <2>1, StateSet DEF NoEviction, EvictStates
  <2>8. QED  BY <1>1, <2>2, <2>6, <2>7 DEF NoEviction, Carries
<1>3. CASE LoadHit(c, a) \/ StoreHit(c, a)
  BY <1>1, <1>3, NoEvictionQuiet DEF LoadHit, StoreHit, netVars, cacheVars
<1>4. QED  BY <1>1, <1>2, <1>3 DEF MandatoryStep

\* A forward finds no write-back and is no acknowledgement of one.
LEMMA CacheForwardKeeps ==
  ASSUME TypeOK, NoEviction, NEW c \in Cache, NEW d \in Dir, CacheForward(c, d)
  PROVE  NoEviction' /\ ~WB_Ack(c, d)
<1>m. PICK m : m = Head(forwardNet[d][c])  OBVIOUS
<1>1. /\ ForwardStep(c, d) /\ dirState' = dirState /\ requestNet' = requestNet
      /\ AtHead(forwardNet, forwardHead, d, c)
  BY DEF CacheForward, dirVars, ForwardStep, Inv, WB_Ack, Fwd_GetS, Fwd_GetM, ForwardStall,
         Forwarded, ForwardStalls
<1>2. forwardNet[d][c] # <<>>  BY <1>1 DEF AtHead
<1>3. m \in ForwardMsg /\ m.addr \in Addr
  <2>1. forwardNet[d][c] \in Seq(ForwardMsg)  BY DEF TypeOK, NetTypeOK
  <2>2. m \in ForwardMsg  BY <1>m, <1>2, <2>1, HeadTailProperties
  <2>3. QED  BY <2>2 DEF ForwardMsg
<1>4. m.type \in FwdTypes /\ cacheState[c][m.addr] \notin EvictStates
  BY <1>m, <1>2, <1>3, Nets, CarriesLess DEF NoEviction
<1>5. ~WB_Ack(c, d)
  BY <1>m, <1>4 DEF WB_Ack, Forwarded, FwdTypes
<1>6. CASE ForwardStall(c, d)
  BY <1>1, <1>5, <1>6, NoEvictionQuiet DEF ForwardStall, cacheVars
<1>7. CASE ~ForwardStall(c, d)
  <2>1. forwardNet' = Pop(forwardNet, d, c)
    BY <1>1, <1>7 DEF ForwardStep, Inv, WB_Ack, Fwd_GetS, Fwd_GetM, popForward
  <2>2. Carries(forwardNet', Dir, Cache, FwdTypes)
    BY <1>2, <2>1, Nets, CarriesLess DEF NoEviction
  <2>3. PICK s \in {"I", "S", "IM_AD"} : setCacheState(c, m.addr, s)
    <3>1. CASE Inv(c, d)
      <4>1. cacheState[c][m.addr] \in {"I", "S", "SM_AD"}
        BY <1>m, <1>4, <3>1 DEF Inv, Forwarded, AfterInv, EvictStates
      <4>2. setCacheState(c, m.addr, AfterInv[cacheState[c][m.addr]])
        BY <1>m, <3>1 DEF Inv
      <4>3. AfterInv[cacheState[c][m.addr]] \in {"I", "S", "IM_AD"}
        BY <4>1 DEF AfterInv
      <4>4. QED  BY <4>2, <4>3
    <3>2. CASE Fwd_GetS(c, d) \/ Fwd_GetM(c, d)
      <4>1. cacheState[c][m.addr] = "M"
        BY <1>m, <1>4, <3>2 DEF Fwd_GetS, Fwd_GetM, Forwarded, EvictStates
      <4>2. QED  BY <1>m, <3>2, <4>1 DEF Fwd_GetS, Fwd_GetM
    <3>3. QED  BY <1>1, <1>5, <1>7, <3>1, <3>2 DEF ForwardStep
  <2>4. \A x \in Cache, y \in Addr : cacheState'[x][y] \notin EvictStates
    BY <1>3, <2>3, StateSet DEF NoEviction, EvictStates
  <2>5. QED  BY <1>1, <1>5, <2>2, <2>4 DEF NoEviction, Carries
<1>8. QED  BY <1>5, <1>6, <1>7

\* A response ends no eviction.
LEMMA CacheResponseKeeps ==
  ASSUME TypeOK, NoEviction, NEW c \in Cache, NEW n \in Node, CacheResponse(c, n)
  PROVE  NoEviction'
<1>m. PICK m : m = Head(responseNet[n][c])  OBVIOUS
<1>1. ResponseStep(c, n) /\ dirState' = dirState  BY DEF CacheResponse, dirVars
<1>2. UNCHANGED <<requestNet, forwardNet>> /\ responseNet[n][c] # <<>>
  BY <1>1 DEF ResponseStep, LoadData, StoreData, Inv_Ack, StoreDone, Responded
<1>3. m.addr \in Addr
  <2>1. responseNet[n][c] \in Seq(ResponseMsg)  BY Places DEF TypeOK, NetTypeOK
  <2>2. m \in ResponseMsg  BY <1>m, <1>2, <2>1, HeadTailProperties
  <2>3. QED  BY <2>2 DEF ResponseMsg
<1>4. CASE Inv_Ack(c, n)
  BY <1>1, <1>2, <1>4, NoEvictionQuiet DEF Inv_Ack
<1>5. CASE ~Inv_Ack(c, n)
  <2>1. PICK s \in {"S", "M", "IM_A", "SM_A"} : setCacheState(c, m.addr, s)
    BY <1>m, <1>1, <1>5 DEF ResponseStep, LoadData, StoreData, StoreDone
  <2>2. \A x \in Cache, y \in Addr : cacheState'[x][y] \notin EvictStates
    BY <1>3, <2>1, StateSet DEF NoEviction, EvictStates
  <2>3. QED  BY <1>1, <1>2, <2>2 DEF NoEviction, Carries
<1>6. QED  BY <1>4, <1>5

\* A directory is sent only GETS and GETM, and writes no eviction back.
LEMMA RequestIsGet ==
  ASSUME TypeOK, NoEviction, NEW d \in Dir, NEW c \in Cache, DirRequest(d, c)
  PROVE  /\ ~PutStep(d, c)
         /\ Head(requestNet[c][d]) \in RequestMsg /\ Head(requestNet[c][d]).type \in GetTypes
<1>m. PICK m : m = Head(requestNet[c][d])  OBVIOUS
<1>1. RequestStep(d, c)  BY DEF DirRequest
<1>2. requestNet[c][d] # <<>>
  BY <1>1 DEF RequestStep, GETS_I, GETM_I, GETS_S, GETM_S, GETS_M, GETM_M,
         PutDropsSharer, PUTS_Last_S, PUTS_Stale, PUTS_Last_MS, PUTM_Owner, PUTM_NotOwner,
         PUTM_MS_D, PUTM_MS_M, RequestStall, RequestStalls, Requested, AtHead
<1>3. m \in RequestMsg
  <2>1. requestNet[c][d] \in Seq(RequestMsg)  BY DEF TypeOK, NetTypeOK
  <2>2. QED  BY <1>m, <1>2, <2>1, HeadTailProperties
<1>4. m.type \in GetTypes
  BY <1>m, <1>2, Nets, CarriesLess DEF NoEviction
<1>5. RequestEvent(c, m) \in GetTypes
  BY <1>3, <1>4, RequestTypes
<1>6. ~PutStep(d, c)
  BY <1>m, <1>5 DEF PutStep, PutDropsSharer, PUTS_Last_S, PUTS_Stale, PUTS_Last_MS,
     PUTM_Owner, PUTM_NotOwner, PUTM_MS_D, PUTM_MS_M, Requested, GetTypes
<1>7. QED  BY <1>m, <1>3, <1>4, <1>6

LEMMA DirRequestKeeps ==
  ASSUME TypeOK, NoEviction, NEW d \in Dir, NEW c \in Cache, DirRequest(d, c)
  PROVE  NoEviction'
<1>m. PICK m : m = Head(requestNet[c][d])  OBVIOUS
<1>1. RequestStep(d, c) /\ cacheState' = cacheState  BY DEF DirRequest, cacheVars
<1>2. ~PutStep(d, c) /\ m \in RequestMsg /\ m.addr \in Addr
  BY <1>m, RequestIsGet DEF RequestMsg
<1>3. CASE RequestStall(d, c)
  BY <1>1, <1>3, NoEvictionQuiet DEF RequestStall, dirVars
<1>4. CASE ~RequestStall(d, c)
  <2>1. GETS_I(d, c) \/ GETM_I(d, c) \/ GETS_S(d, c) \/ GETM_S(d, c) \/ GETS_M(d, c) \/ GETM_M(d, c)
    BY <1>1, <1>2, <1>4 DEF RequestStep, PutStep
  <2>2. /\ requestNet' = Pop(requestNet, c, d) /\ requestNet[c][d] # <<>>
        /\ \/ forwardNet' = forwardNet
           \/ \E type \in FwdTypes : \E dsts : forward(d, dsts, type, m.addr, c)
        /\ \E s \in {"IS_M", "IM_M", "S", "M", "MS_D"} : \E own, shr : setState(m.addr, s, own, shr)
    <3>1. CASE GETS_I(d, c) \/ GETM_I(d, c)
      BY <1>m, <3>1 DEF GETS_I, GETM_I, popRequest, Requested, AtHead
    <3>2. CASE GETS_S(d, c)
      BY <1>m, <3>2 DEF GETS_S, popRequest, Requested, AtHead
    <3>3. CASE GETM_S(d, c)
      BY <1>m, <3>3 DEF GETM_S, popRequest, Requested, AtHead, invalidateSharers, FwdTypes
    <3>4. CASE GETS_M(d, c)
      BY <1>m, <3>4 DEF GETS_M, popRequest, Requested, AtHead, FwdTypes
    <3>5. CASE GETM_M(d, c)
      BY <1>m, <3>5 DEF GETM_M, popRequest, Requested, AtHead, FwdTypes
    <3>6. QED  BY <2>1, <3>1, <3>2, <3>3, <3>4, <3>5
  <2>3. Carries(requestNet', Cache, Dir, GetTypes)
    BY <2>2, Nets, CarriesLess DEF NoEviction
  <2>4. Carries(forwardNet', Dir, Cache, FwdTypes)
    <3>1. CASE forwardNet' = forwardNet
      BY <3>1 DEF NoEviction
    <3>2. ASSUME NEW dsts, NEW type \in FwdTypes, forward(d, dsts, type, m.addr, c)
          PROVE  Carries(forwardNet', Dir, Cache, FwdTypes)
      <4>1. PICK k : k = [type |-> type, addr |-> m.addr, requestor |-> c]  OBVIOUS
      <4>2. k \in ForwardMsg /\ k.type \in FwdTypes
        BY <1>2, <4>1 DEF ForwardMsg, FwdTypes
      <4>3. forwardNet' = Multicast(forwardNet, d, dsts, k)
        BY <3>2, <4>1 DEF forward
      <4>4. QED  BY <4>2, <4>3, Nets, CarriesMore DEF NoEviction
    <3>3. QED  BY <2>2, <3>1, <3>2
  <2>5. \A x \in Addr : dirState'[x] # "MI_M"
    BY <1>2, <2>2, DirStateSet DEF NoEviction
  <2>6. QED  BY <1>1, <2>3, <2>4, <2>5 DEF NoEviction, Carries
<1>5. QED  BY <1>3, <1>4

LEMMA DirResponseKeeps ==
  ASSUME TypeOK, NoEviction, NEW d \in Dir, NEW c \in Cache, DirResponse(d, c)
  PROVE  NoEviction'
<1>m. PICK m : m = Head(responseNet[c][d])  OBVIOUS
<1>1. DataStep(d, c) /\ cacheState' = cacheState  BY DEF DirResponse, cacheVars
<1>2. UNCHANGED <<requestNet, forwardNet>> /\ responseNet[c][d] # <<>>
  BY <1>1 DEF DataStep, Data_Dropped, Data_MS_D, Data_MS_M, DataArrived
<1>3. m.addr \in Addr
  <2>1. responseNet[c][d] \in Seq(ResponseMsg)  BY Places DEF TypeOK, NetTypeOK
  <2>2. m \in ResponseMsg  BY <1>m, <1>2, <2>1, HeadTailProperties
  <2>3. QED  BY <2>2 DEF ResponseMsg
<1>4. PICK s, own, shr : s # "MI_M" /\ setState(m.addr, s, own, shr)
  <2>1. dirState[m.addr] # "MI_M"  BY <1>3 DEF NoEviction
  <2>2. CASE Data_Dropped(d, c)  BY <1>m, <2>1, <2>2 DEF Data_Dropped
  <2>3. CASE Data_MS_D(d, c)  BY <1>m, <2>3 DEF Data_MS_D
  <2>4. CASE Data_MS_M(d, c)  BY <1>m, <2>4 DEF Data_MS_M
  <2>5. QED  BY <1>1, <2>2, <2>3, <2>4 DEF DataStep
<1>5. \A x \in Addr : dirState'[x] # "MI_M"
  BY <1>3, <1>4, DirStateSet DEF NoEviction
<1>6. QED  BY <1>1, <1>2, <1>5 DEF NoEviction, Carries

LEMMA DirMemoryKeeps ==
  ASSUME TypeOK, NoEviction, NEW d \in Dir, DirMemory(d)
  PROVE  NoEviction'
<1>1. cacheState' = cacheState  BY DEF DirMemory, cacheVars
<1>2. PICK m \in memQueue : Memory_Data(d, m) \/ Memory_Ack(d, m)
  BY DEF DirMemory, MemoryStep
<1>3. m.addr \in Addr  BY DEF TypeOK, DirTypeOK, MemoryMsg
<1>4. dirState[m.addr] # "MI_M"  BY <1>3 DEF NoEviction
<1>5. UNCHANGED <<requestNet, forwardNet>>
  BY <1>2, <1>4 DEF Memory_Data, Memory_Ack
<1>6. PICK s, own, shr : s # "MI_M" /\ setState(m.addr, s, own, shr)
  <2>1. CASE Memory_Data(d, m)
    <3>1. setState(m.addr, IF dirState[m.addr] = "IS_M" THEN "S" ELSE "M", owner[m.addr], sharers[m.addr])
      BY <2>1 DEF Memory_Data
    <3>2. (IF dirState[m.addr] = "IS_M" THEN "S" ELSE "M") # "MI_M"  OBVIOUS
    <3>3. QED  BY <3>1, <3>2
  <2>2. CASE Memory_Ack(d, m)  BY <1>4, <2>2 DEF Memory_Ack
  <2>3. QED  BY <1>2, <2>1, <2>2
<1>7. \A x \in Addr : dirState'[x] # "MI_M"
  BY <1>3, <1>6, DirStateSet DEF NoEviction
<1>8. QED  BY <1>1, <1>5, <1>7 DEF NoEviction, Carries

LEMMA NoEvictionNext ==
  ASSUME TypeOK, Fitting, NoEviction, [Next]_vars
  PROVE  NoEviction'
<1>1. CASE UNCHANGED vars
  BY <1>1, NoEvictionQuiet DEF vars, netVars, cacheVars, dirVars
<1>2. ASSUME NEW c \in Cache, ProcessorRequest(c) PROVE NoEviction'
  BY <1>2, NoEvictionQuiet DEF ProcessorRequest, netVars, cacheVars, dirVars
<1>3. ASSUME NEW c \in Cache, NEW a \in Addr, CacheMandatory(c, a) PROVE NoEviction'
  BY <1>3, CacheMandatoryKeeps
<1>4. ASSUME NEW c \in Cache PROVE ~CacheReplacement(c)
  <2>1. \A a \in mandatoryQueue[c] : a \in Addr  BY DEF TypeOK, SeqTypeOK
  <2>2. QED  BY <2>1, RoomLeft DEF CacheReplacement, Replacement
<1>5. ASSUME NEW c \in Cache, NEW d \in Dir, CacheForward(c, d) PROVE NoEviction'
  BY <1>5, CacheForwardKeeps
<1>6. ASSUME NEW c \in Cache, NEW n \in Node, CacheResponse(c, n) PROVE NoEviction'
  BY <1>6, CacheResponseKeeps
<1>7. ASSUME NEW c \in Cache, CacheFatal(c) PROVE NoEviction'
  BY <1>7, NoEvictionQuiet DEF CacheFatal, CacheInvalidTransition, netVars, cacheVars, dirVars
<1>8. ASSUME NEW d \in Dir, NEW c \in Cache, DirRequest(d, c) PROVE NoEviction'
  BY <1>8, DirRequestKeeps
<1>9. ASSUME NEW d \in Dir, NEW c \in Cache, DirResponse(d, c) PROVE NoEviction'
  BY <1>9, DirResponseKeeps
<1>10. ASSUME NEW d \in Dir, DirMemory(d) PROVE NoEviction'
  BY <1>10, DirMemoryKeeps
<1>11. ASSUME NEW d \in Dir, DirFatal(d) PROVE NoEviction'
  BY <1>11, NoEvictionQuiet DEF DirFatal, DirInvalidTransition, netVars, cacheVars, dirVars
<1>12. QED  BY <1>1, <1>2, <1>3, <1>4, <1>5, <1>6, <1>7, <1>8, <1>9, <1>10, <1>11
            DEF Next, ControllerStep

LEMMA NoEvictionInit == Init => NoEviction
<1> SUFFICES ASSUME Init PROVE NoEviction
  OBVIOUS
<1> USE DEF Init, NetInit, CacheInit, DirInit
<1>1. \A c \in Cache, d \in Dir : \A m : ~In(requestNet, c, d, m)  BY DEF In, Range
<1>2. \A c \in Cache, d \in Dir : \A m : ~In(forwardNet, d, c, m)  BY DEF In, Range
<1>3. QED  BY <1>1, <1>2 DEF NoEviction, Carries, EvictStates

-----------------------------------------------------------------------------
(* No written line is evicted.                                             *)

\* A cache gives up a line that it has written.
DirtyEviction == \E c \in Cache, a \in Addr : cacheState[c][a] = "M" /\ Replacement(c, a)

CleanTypes == {"GETS", "GETM", "PUTS"}

\* No written line is being evicted or written back.
NoDirty ==
  /\ Carries(requestNet, Cache, Dir, CleanTypes)
  /\ \A c \in Cache, a \in Addr : cacheState[c][a] # "MI_A"
  /\ \A a \in Addr : dirState[a] # "MI_M"

\* A step sends no write-back and enters neither state of one.
StillClean ==
  /\ \/ requestNet' = requestNet
     \/ \E c \in Cache, d \in Dir : requestNet[c][d] # <<>> /\ requestNet' = Pop(requestNet, c, d)
     \/ \E c \in Cache, a \in Addr, v \in DataBlk : \E type \in CleanTypes : sendRequest(c, a, type, v)
  /\ \/ cacheState' = cacheState
     \/ \E c \in Cache, a \in Addr : \E s : s # "MI_A" /\ setCacheState(c, a, s)
  /\ \/ dirState' = dirState
     \/ \E a \in Addr : \E s, own, shr : s # "MI_M" /\ setState(a, s, own, shr)

LEMMA CleanKept ==
  ASSUME TypeOK, NoDirty, StillClean
  PROVE  NoDirty'
<1>1. Carries(requestNet', Cache, Dir, CleanTypes)
  <2>1. CASE requestNet' = requestNet
    BY <2>1 DEF NoDirty
  <2>2. ASSUME NEW c \in Cache, NEW d \in Dir, requestNet[c][d] # <<>>, requestNet' = Pop(requestNet, c, d)
        PROVE  Carries(requestNet', Cache, Dir, CleanTypes)
    BY <2>2, Nets, CarriesLess DEF NoDirty
  <2>3. ASSUME NEW c \in Cache, NEW a \in Addr, NEW v \in DataBlk, NEW type \in CleanTypes,
               sendRequest(c, a, type, v)
        PROVE  Carries(requestNet', Cache, Dir, CleanTypes)
    <3>1. PICK m : m = [type |-> type, addr |-> a, data |-> v]  OBVIOUS
    <3>2. m \in RequestMsg /\ m.type \in CleanTypes
      BY <3>1 DEF RequestMsg, CleanTypes
    <3>3. DirOf[a] \in Dir /\ requestNet' = Send(requestNet, c, DirOf[a], m)
      BY <2>3, <3>1, Places DEF sendRequest
    <3>4. QED  BY <3>2, <3>3, Nets, CarriesMore DEF NoDirty
  <2>4. QED  BY <2>1, <2>2, <2>3 DEF StillClean
<1>2. \A x \in Cache, y \in Addr : cacheState'[x][y] # "MI_A"
  <2>1. CASE cacheState' = cacheState
    BY <2>1 DEF NoDirty
  <2>2. ASSUME NEW c \in Cache, NEW a \in Addr, NEW s, s # "MI_A", setCacheState(c, a, s)
        PROVE  \A x \in Cache, y \in Addr : cacheState'[x][y] # "MI_A"
    BY <2>2, StateSet DEF NoDirty
  <2>3. QED  BY <2>1, <2>2 DEF StillClean
<1>3. \A x \in Addr : dirState'[x] # "MI_M"
  <2>1. CASE dirState' = dirState
    BY <2>1 DEF NoDirty
  <2>2. ASSUME NEW a \in Addr, NEW s, NEW own, NEW shr, s # "MI_M", setState(a, s, own, shr)
        PROVE  \A x \in Addr : dirState'[x] # "MI_M"
    BY <2>2, DirStateSet DEF NoDirty
  <2>3. QED  BY <2>1, <2>2 DEF StillClean
<1>4. QED  BY <1>1, <1>2, <1>3 DEF NoDirty, Carries

LEMMA NoDirtyQuiet ==
  ASSUME NoDirty, UNCHANGED <<requestNet, cacheState, dirState>>
  PROVE  NoDirty'
BY DEF NoDirty, Carries

LEMMA CacheMandatoryClean ==
  ASSUME TypeOK, NoDirty, NEW c \in Cache, NEW a \in Addr, CacheMandatory(c, a)
  PROVE  NoDirty'
<1>1. MandatoryStep(c, a) /\ dirState' = dirState  BY DEF CacheMandatory, dirVars
<1>2. CASE Miss(c, a) \/ Upgrade(c, a)
  <2>1. PICK type \in CleanTypes, s \in {"IS_D", "IM_AD", "SM_AD"} :
          sendRequest(c, a, type, None) /\ setCacheState(c, a, s)
    BY <1>2 DEF Miss, Upgrade, CleanTypes
  <2>2. None \in DataBlk  BY DEF DataBlk
  <2>3. StillClean  BY <1>1, <2>1, <2>2 DEF StillClean
  <2>4. QED  BY <2>3, CleanKept
<1>3. CASE LoadHit(c, a) \/ StoreHit(c, a)
  BY <1>1, <1>3, NoDirtyQuiet DEF LoadHit, StoreHit, netVars, cacheVars
<1>4. QED  BY <1>1, <1>2, <1>3 DEF MandatoryStep

\* The lines that are evicted have not been written.
LEMMA CacheReplacementClean ==
  ASSUME TypeOK, NoDirty, ~DirtyEviction, NEW c \in Cache, NEW a \in Addr, Replacement(c, a),
         UNCHANGED dirVars
  PROVE  NoDirty' /\ cacheState[c][a] = "S"
<1>1. cacheState[c][a] = "S"  BY DEF DirtyEviction, Replacement
<1>2. /\ sendRequest(c, a, "PUTS", entryBlk[c][a]) /\ setCacheState(c, a, "SI_A")
      /\ entryBlk[c][a] \in DataBlk
  BY <1>1 DEF Replacement, TypeOK, CacheTypeOK
<1>3. StillClean  BY <1>2 DEF StillClean, CleanTypes, dirVars
<1>4. QED  BY <1>1, <1>3, CleanKept

LEMMA CacheForwardClean ==
  ASSUME TypeOK, MissInv, NoDirty, NEW c \in Cache, NEW d \in Dir, CacheForward(c, d)
  PROVE  NoDirty'
<1>m. PICK m : m = Head(forwardNet[d][c])  OBVIOUS
<1>1. ForwardStep(c, d) /\ dirState' = dirState  BY DEF CacheForward, dirVars
<1>2. requestNet' = requestNet
  BY <1>1 DEF ForwardStep, Inv, WB_Ack, Fwd_GetS, Fwd_GetM, ForwardStall
<1>3. CASE ForwardStall(c, d)
  BY <1>1, <1>2, <1>3, NoDirtyQuiet DEF ForwardStall, cacheVars
<1>4. CASE Inv(c, d) \/ WB_Ack(c, d) \/ Fwd_GetS(c, d) \/ Fwd_GetM(c, d)
  <2>1. m.addr \in Addr
    <3>1. AtHead(forwardNet, forwardHead, d, c)
      BY <1>4 DEF Inv, WB_Ack, Fwd_GetS, Fwd_GetM, Forwarded
    <3>2. QED  BY <1>m, <3>1, ForwardFirst
  <2>2. PICK s \in {"I", "S", "IM_AD", "II_A"} : setCacheState(c, m.addr, s)
    <3>1. CASE Inv(c, d)
      <4>1. cacheState[c][m.addr] \in {"I", "S", "SM_AD", "SI_A"}
        BY <1>m, <3>1 DEF Inv, Forwarded, AfterInv
      <4>2. setCacheState(c, m.addr, AfterInv[cacheState[c][m.addr]])
        BY <1>m, <3>1 DEF Inv
      <4>3. AfterInv[cacheState[c][m.addr]] \in {"I", "IM_AD", "II_A"}
        BY <4>1 DEF AfterInv
      <4>4. QED  BY <4>2, <4>3
    <3>2. CASE WB_Ack(c, d)  BY <1>m, <3>2 DEF WB_Ack
    <3>3. CASE Fwd_GetS(c, d) \/ Fwd_GetM(c, d)
      <4>1. cacheState[c][m.addr] = "M"
        BY <1>m, <2>1, <3>3 DEF Fwd_GetS, Fwd_GetM, Forwarded, NoDirty
      <4>2. QED  BY <1>m, <3>3, <4>1 DEF Fwd_GetS, Fwd_GetM
    <3>4. QED  BY <1>4, <3>1, <3>2, <3>3
  <2>3. StillClean  BY <1>1, <1>2, <2>1, <2>2 DEF StillClean
  <2>4. QED  BY <2>3, CleanKept
<1>5. QED  BY <1>1, <1>3, <1>4 DEF ForwardStep

LEMMA CacheResponseClean ==
  ASSUME TypeOK, NoDirty, NEW c \in Cache, NEW n \in Node, CacheResponse(c, n)
  PROVE  NoDirty'
<1>m. PICK m : m = Head(responseNet[n][c])  OBVIOUS
<1>1. ResponseStep(c, n) /\ dirState' = dirState  BY DEF CacheResponse, dirVars
<1>2. requestNet' = requestNet /\ responseNet[n][c] # <<>>
  BY <1>1 DEF ResponseStep, LoadData, StoreData, Inv_Ack, StoreDone, Responded
<1>3. m.addr \in Addr
  <2>1. m \in ResponseMsg  BY <1>m, <1>2, Nets, HeadIn, Places
  <2>2. QED  BY <2>1 DEF ResponseMsg
<1>4. CASE Inv_Ack(c, n)
  BY <1>1, <1>2, <1>4, NoDirtyQuiet DEF Inv_Ack
<1>5. CASE ~Inv_Ack(c, n)
  <2>1. PICK s \in {"S", "M", "IM_A", "SM_A"} : setCacheState(c, m.addr, s)
    BY <1>m, <1>1, <1>5 DEF ResponseStep, LoadData, StoreData, StoreDone
  <2>2. StillClean  BY <1>1, <1>2, <1>3, <2>1 DEF StillClean
  <2>3. QED  BY <2>2, CleanKept
<1>6. QED  BY <1>4, <1>5

\* A directory is sent no PUTM.
CleanPut(d, c) ==
  PutDropsSharer(d, c) \/ PUTS_Last_S(d, c) \/ PUTS_Stale(d, c) \/ PUTS_Last_MS(d, c)

LEMMA PutIsClean ==
  ASSUME TypeOK, NoDirty, NEW d \in Dir, NEW c \in Cache, PutStep(d, c),
         NEW m, m = Head(requestNet[c][d]), m \in RequestMsg,
         AtHead(requestNet, requestHead, c, d)
  PROVE  /\ CleanPut(d, c) /\ m.type = "PUTS"
         /\ RequestEvent(c, m) \in {"PUTS_Last", "PUTS_NotLast"}
<1>1. m.type \in CleanTypes
  BY Nets, CarriesLess DEF NoDirty, AtHead
<1>2. RequestEvent(c, m) \in {"PUTS_Last", "PUTS_NotLast", "PUTM_Owner", "PUTM_NotOwner"}
  BY DEF PutStep, PutDropsSharer, PUTS_Last_S, PUTS_Stale, PUTS_Last_MS,
     PUTM_Owner, PUTM_NotOwner, PUTM_MS_D, PUTM_MS_M, Requested
<1>3. m.type = "PUTS" /\ RequestEvent(c, m) \in {"PUTS_Last", "PUTS_NotLast"}
  BY <1>1, <1>2, RequestTypes DEF CleanTypes
<1>4. CleanPut(d, c)
  BY <1>3 DEF PutStep, CleanPut, PUTM_Owner, PUTM_NotOwner, PUTM_MS_D, PUTM_MS_M, Requested
<1>5. QED  BY <1>3, <1>4

LEMMA DirRequestClean ==
  ASSUME TypeOK, MissInv, NoDirty, NEW d \in Dir, NEW c \in Cache, DirRequest(d, c)
  PROVE  NoDirty'
<1>m. PICK m : m = Head(requestNet[c][d])  OBVIOUS
<1>1. RequestStep(d, c) /\ cacheState' = cacheState  BY DEF DirRequest, cacheVars
<1>2. CASE RequestStall(d, c)
  BY <1>1, <1>2, NoDirtyQuiet DEF RequestStall, dirVars
<1>3. CASE GetStep(d, c) \/ PutStep(d, c)
  <2>1. AtHead(requestNet, requestHead, c, d)
    BY <1>3 DEF GetStep, GETS_I, GETM_I, GETS_S, GETM_S, GETS_M, GETM_M, PutStep, PutDropsSharer,
       PUTS_Last_S, PUTS_Stale, PUTS_Last_MS, PUTM_Owner, PUTM_NotOwner, PUTM_MS_D, PUTM_MS_M,
       Requested
  <2>2. m \in RequestMsg /\ m.addr \in Addr /\ requestNet[c][d] # <<>>
    BY <1>m, <2>1, RequestFirst DEF AtHead
  <2>3. CASE GetStep(d, c)
    <3>1. /\ requestNet' = Pop(requestNet, c, d)
          /\ \E s \in {"IS_M", "IM_M", "S", "M", "MS_D"} : \E own, shr : setState(m.addr, s, own, shr)
      <4>1. CASE GETS_I(d, c) \/ GETM_I(d, c)
        BY <1>m, <4>1 DEF GETS_I, GETM_I, popRequest
      <4>2. CASE GETS_S(d, c) \/ GETM_S(d, c)
        BY <1>m, <4>2 DEF GETS_S, GETM_S, popRequest
      <4>3. CASE GETS_M(d, c) \/ GETM_M(d, c)
        BY <1>m, <4>3 DEF GETS_M, GETM_M, popRequest
      <4>4. QED  BY <2>3, <4>1, <4>2, <4>3 DEF GetStep
    <3>2. StillClean  BY <1>1, <2>2, <3>1 DEF StillClean
    <3>3. QED  BY <3>2, CleanKept
  <2>4. CASE PutStep(d, c)
    <3>1. CleanPut(d, c)  BY <1>m, <2>1, <2>2, <2>4, PutIsClean
    <3>2. dirState[m.addr] # "MI_M"  BY <2>2 DEF NoDirty
    <3>3. /\ requestNet' = Pop(requestNet, c, d) \/ requestNet' = requestNet
          /\ \E s, own, shr : s # "MI_M" /\ setState(m.addr, s, own, shr)
      <4>1. CASE PutDropsSharer(d, c)
        BY <1>m, <3>2, <4>1 DEF PutDropsSharer, popRequest
      <4>2. CASE PUTS_Last_S(d, c)
        BY <1>m, <4>2 DEF PUTS_Last_S, popRequest
      <4>3. CASE PUTS_Stale(d, c)
        BY <1>m, <3>2, <4>3 DEF PUTS_Stale, popRequest
      <4>4. CASE PUTS_Last_MS(d, c)
        BY <1>m, <3>2, <4>4 DEF PUTS_Last_MS
      <4>5. QED  BY <3>1, <4>1, <4>2, <4>3, <4>4 DEF CleanPut
    <3>4. StillClean  BY <1>1, <2>2, <3>3 DEF StillClean
    <3>5. QED  BY <3>4, CleanKept
  <2>5. QED  BY <1>3, <2>3, <2>4
<1>4. QED  BY <1>1, <1>2, <1>3 DEF RequestStep, GetStep, PutStep

LEMMA DirResponseClean ==
  ASSUME TypeOK, NoDirty, NEW d \in Dir, NEW c \in Cache, DirResponse(d, c)
  PROVE  NoDirty'
<1>m. PICK m : m = Head(responseNet[c][d])  OBVIOUS
<1>1. DataStep(d, c) /\ cacheState' = cacheState  BY DEF DirResponse, cacheVars
<1>2. requestNet' = requestNet /\ responseNet[c][d] # <<>>
  BY <1>1 DEF DataStep, Data_Dropped, Data_MS_D, Data_MS_M, DataArrived
<1>3. m.addr \in Addr
  <2>1. m \in ResponseMsg  BY <1>m, <1>2, Nets, HeadIn, Places
  <2>2. QED  BY <2>1 DEF ResponseMsg
<1>4. \E s, own, shr : s # "MI_M" /\ setState(m.addr, s, own, shr)
  <2>1. dirState[m.addr] # "MI_M"  BY <1>3 DEF NoDirty
  <2>2. CASE Data_Dropped(d, c)  BY <1>m, <2>1, <2>2 DEF Data_Dropped
  <2>3. CASE Data_MS_D(d, c)  BY <1>m, <2>3 DEF Data_MS_D
  <2>4. CASE Data_MS_M(d, c)  BY <1>m, <2>4 DEF Data_MS_M
  <2>5. QED  BY <1>1, <2>2, <2>3, <2>4 DEF DataStep
<1>5. StillClean  BY <1>1, <1>2, <1>3, <1>4 DEF StillClean
<1>6. QED  BY <1>5, CleanKept

LEMMA DirMemoryClean ==
  ASSUME TypeOK, NoDirty, NEW d \in Dir, DirMemory(d)
  PROVE  NoDirty'
<1>1. PICK m \in memQueue : Memory_Data(d, m) \/ Memory_Ack(d, m)
  BY DEF DirMemory, MemoryStep
<1>2. m.addr \in Addr  BY DEF TypeOK, DirTypeOK, MemoryMsg
<1>3. dirState[m.addr] # "MI_M"  BY <1>2 DEF NoDirty
<1>4. requestNet' = requestNet /\ cacheState' = cacheState
  BY <1>1 DEF DirMemory, Memory_Data, Memory_Ack, cacheVars
<1>5. \E s, own, shr : s # "MI_M" /\ setState(m.addr, s, own, shr)
  <2>1. CASE Memory_Data(d, m)
    <3>1. setState(m.addr, IF dirState[m.addr] = "IS_M" THEN "S" ELSE "M", owner[m.addr], sharers[m.addr])
      BY <2>1 DEF Memory_Data
    <3>2. (IF dirState[m.addr] = "IS_M" THEN "S" ELSE "M") # "MI_M"  OBVIOUS
    <3>3. QED  BY <3>1, <3>2
  <2>2. CASE Memory_Ack(d, m)  BY <1>3, <2>2 DEF Memory_Ack
  <2>3. QED  BY <1>1, <2>1, <2>2
<1>6. StillClean  BY <1>2, <1>4, <1>5 DEF StillClean
<1>7. QED  BY <1>6, CleanKept

LEMMA NoDirtyNext ==
  ASSUME TypeOK, MissInv, NoDirty, [Next]_vars, [~DirtyEviction]_vars
  PROVE  NoDirty'
<1>1. CASE UNCHANGED vars
  BY <1>1, NoDirtyQuiet DEF vars, netVars, cacheVars, dirVars
<1>2. ASSUME NEW c \in Cache, ProcessorRequest(c) PROVE NoDirty'
  BY <1>2, NoDirtyQuiet DEF ProcessorRequest, netVars, cacheVars, dirVars
<1>3. ASSUME NEW c \in Cache, NEW a \in Addr, CacheMandatory(c, a) PROVE NoDirty'
  BY <1>3, CacheMandatoryClean
<1>4. ASSUME NEW c \in Cache, CacheReplacement(c), ~DirtyEviction PROVE NoDirty'
  <2>1. PICK a \in Addr : Replacement(c, a)  BY <1>4 DEF CacheReplacement
  <2>2. QED  BY <1>4, <2>1, CacheReplacementClean DEF CacheReplacement
<1>5. ASSUME NEW c \in Cache, NEW d \in Dir, CacheForward(c, d) PROVE NoDirty'
  BY <1>5, CacheForwardClean
<1>6. ASSUME NEW c \in Cache, NEW n \in Node, CacheResponse(c, n) PROVE NoDirty'
  BY <1>6, CacheResponseClean
<1>7. ASSUME NEW c \in Cache, CacheFatal(c) PROVE NoDirty'
  BY <1>7, NoDirtyQuiet DEF CacheFatal, CacheInvalidTransition, netVars, cacheVars, dirVars
<1>8. ASSUME NEW d \in Dir, NEW c \in Cache, DirRequest(d, c) PROVE NoDirty'
  BY <1>8, DirRequestClean
<1>9. ASSUME NEW d \in Dir, NEW c \in Cache, DirResponse(d, c) PROVE NoDirty'
  BY <1>9, DirResponseClean
<1>10. ASSUME NEW d \in Dir, DirMemory(d) PROVE NoDirty'
  BY <1>10, DirMemoryClean
<1>11. ASSUME NEW d \in Dir, DirFatal(d) PROVE NoDirty'
  BY <1>11, NoDirtyQuiet DEF DirFatal, DirInvalidTransition, netVars, cacheVars, dirVars
<1>12. QED  BY <1>1, <1>2, <1>3, <1>4, <1>5, <1>6, <1>7, <1>8, <1>9, <1>10, <1>11
            DEF Next, ControllerStep

LEMMA NoDirtyInit == Init => NoDirty
<1> SUFFICES ASSUME Init PROVE NoDirty
  OBVIOUS
<1> USE DEF Init, NetInit, CacheInit, DirInit
<1>1. \A c \in Cache, d \in Dir : \A m : ~In(requestNet, c, d, m)  BY DEF In, Range
<1>2. QED  BY <1>1 DEF NoDirty, Carries

-----------------------------------------------------------------------------
(* The blocks on their way back to the directories.                        *)

\* The directory of the line is sent nothing but blocks, each once.
BacksInv ==
  /\ AllDistinct(responseNet, {"DATA"})
  /\ \A n \in Node, d \in Dir : \A m :
       In(responseNet, n, d, m) => m.type = "DATA" /\ DirOf[m.addr] = d

BackSame == \A c \in Cache, a \in Addr : \A m : AtBack(c, a, m)' <=> AtBack(c, a, m)
BackPut(c0, a0, m0) ==
  \A c \in Cache, a \in Addr : \A m :
    AtBack(c, a, m)' <=> AtBack(c, a, m) \/ (c = c0 /\ a = a0 /\ m = m0)
BackTake(c0, m0) ==
  \A c \in Cache, a \in Addr : \A m :
    AtBack(c, a, m)' <=> AtBack(c, a, m) /\ ~(c = c0 /\ m = m0)

LEMMA BacksSame ==
  ASSUME BacksInv, responseNet' = responseNet
  PROVE  BacksInv' /\ BackSame
BY DEF BacksInv, BackSame, AtBack

\* A cache is sent a response.
LEMMA BacksOnSend ==
  ASSUME TypeOK, BacksInv, NEW n \in Node, NEW c \in Cache, NEW m \in ResponseMsg, m.type # "DATA",
         responseNet' = Send(responseNet, n, c, m)
  PROVE  BacksInv' /\ BackSame
<1>1. c \in Node /\ c \notin Dir  BY Places
<1>2. /\ \A s \in Node, d \in Node : \A k :
           In(responseNet', s, d, k) <=> In(responseNet, s, d, k) \/ (s = n /\ d = c /\ k = m)
      /\ AllDistinct(responseNet', {"DATA"})
  BY <1>1, SendView, Nets DEF BacksInv
<1>3. \A s \in Node, d \in Dir : \A k : In(responseNet', s, d, k) <=> In(responseNet, s, d, k)
  BY <1>1, <1>2, Places
<1>4. BackSame  BY <1>3, Places DEF BackSame, AtBack
<1>5. QED  BY <1>2, <1>3, <1>4 DEF BacksInv, In

\* A cache takes a response.
LEMMA BacksOnTake ==
  ASSUME TypeOK, BacksInv, NEW n \in Node, NEW c \in Cache, responseNet[n][c] # <<>>,
         responseNet' = Pop(responseNet, n, c)
  PROVE  BacksInv' /\ BackSame
<1>1. c \in Node /\ c \notin Dir  BY Places
<1>2. PICK msg : msg = Head(responseNet[n][c])  OBVIOUS
<1>3. /\ AllDistinct(responseNet', {"DATA"})
      /\ \A s \in Node, d \in Node : \A m : In(responseNet', s, d, m) => In(responseNet, s, d, m)
      /\ \A s \in Node, d \in Node : \A m : m.type \in {"DATA"} =>
           (In(responseNet', s, d, m) <=>
              In(responseNet, s, d, m) /\ ~(s = n /\ d = c /\ m = msg))
  BY <1>1, <1>2, PopView, Nets DEF BacksInv
<1>4. \A s \in Node, d \in Dir : \A m : In(responseNet', s, d, m) <=> In(responseNet, s, d, m)
  <2>1. \A s \in Node, d \in Dir : \A m : In(responseNet, s, d, m) => m.type \in {"DATA"}
    BY DEF BacksInv
  <2>2. QED  BY <1>1, <1>3, <2>1, Places
<1>5. BackSame  BY <1>4, Places DEF BackSame, AtBack
<1>6. QED  BY <1>3, <1>4, <1>5 DEF BacksInv, In

\* An owner sends its block to the requestor and back to the directory.
LEMMA BacksPut ==
  ASSUME TypeOK, BacksInv, NEW c \in Cache, NEW r \in Cache, NEW m \in ResponseMsg, m.type # "DATA",
         NEW k \in ResponseMsg, k.type = "DATA", k.addr \in Addr, ~AtBack(c, k.addr, k),
         responseNet' = Send(Send(responseNet, c, r, m), c, DirOf[k.addr], k)
  PROVE  BacksInv' /\ BackPut(c, k.addr, k)
<1>1. /\ c \in Node /\ r \in Node /\ r \notin Dir
      /\ DirOf[k.addr] \in Dir /\ DirOf[k.addr] \in Node
  BY Places
<1>2. PICK mid : mid = Send(responseNet, c, r, m)  OBVIOUS
<1>3. Net(mid, Node, Node, ResponseMsg)
  BY <1>1, <1>2, Nets, SendType DEF Net
<1>4. /\ \A s \in Node, d \in Node : \A x :
           In(mid, s, d, x) <=> In(responseNet, s, d, x) \/ (s = c /\ d = r /\ x = m)
      /\ AllDistinct(mid, {"DATA"})
  BY <1>1, <1>2, SendView, Nets DEF BacksInv
<1>5. ~In(mid, c, DirOf[k.addr], k)
  BY <1>1, <1>4 DEF AtBack
<1>6. /\ \A s \in Node, d \in Node : \A x :
           In(responseNet', s, d, x) <=> In(mid, s, d, x) \/ (s = c /\ d = DirOf[k.addr] /\ x = k)
      /\ AllDistinct(responseNet', {"DATA"})
  <2>1. responseNet' = Send(mid, c, DirOf[k.addr], k)  BY <1>2
  <2>2. QED  BY <1>1, <1>3, <1>4, <1>5, <2>1, SendView
<1>7. \A s \in Node, d \in Dir : \A x :
        In(responseNet', s, d, x) <=> In(responseNet, s, d, x) \/ (s = c /\ d = DirOf[k.addr] /\ x = k)
  BY <1>1, <1>4, <1>6, Places
<1>8. BackPut(c, k.addr, k)
  BY <1>1, <1>7, Places DEF BackPut, AtBack
<1>9. \A s \in Node, d \in Dir : \A x :
        In(responseNet', s, d, x) => x.type = "DATA" /\ DirOf[x.addr] = d
  BY <1>7 DEF BacksInv
<1>10. QED  BY <1>6, <1>8, <1>9 DEF BacksInv, In

\* A directory takes a block.
LEMMA BacksTaken ==
  ASSUME TypeOK, MissInv, BacksInv, NEW c \in Cache, NEW d \in Dir, responseNet[c][d] # <<>>,
         responseNet' = Pop(responseNet, c, d), NEW msg, msg = Head(responseNet[c][d])
  PROVE  /\ msg \in ResponseMsg /\ msg.addr \in Addr /\ DirOf[msg.addr] = d /\ AtBack(c, msg.addr, msg)
         /\ BacksInv' /\ BackTake(c, msg) /\ RespSame
<1>1. c \in Node /\ d \in Node /\ d \notin Cache  BY Places
<1>2. /\ In(responseNet, c, d, msg)
      /\ AllDistinct(responseNet', {"DATA"})
      /\ \A s \in Node, e \in Node : \A m : In(responseNet', s, e, m) => In(responseNet, s, e, m)
      /\ \A s \in Node, e \in Node : \A m : m.type \in {"DATA"} =>
           (In(responseNet', s, e, m) <=>
              In(responseNet, s, e, m) /\ ~(s = c /\ e = d /\ m = msg))
  BY <1>1, PopView, Nets DEF BacksInv
<1>3. /\ msg \in ResponseMsg /\ RespTake(c, d, msg)
  BY <1>1, ResponseTaken DEF MissInv, ChannelInv
<1>4. msg.addr \in Addr  BY <1>3 DEF ResponseMsg
<1>5. msg.type = "DATA" /\ DirOf[msg.addr] = d  BY <1>1, <1>2 DEF BacksInv
<1>6. AtBack(c, msg.addr, msg)  BY <1>2, <1>5 DEF AtBack
<1>7. \A s \in Node, e \in Dir : \A m :
        In(responseNet', s, e, m) <=> In(responseNet, s, e, m) /\ ~(s = c /\ e = d /\ m = msg)
  <2>1. \A s \in Node, e \in Dir : \A m : In(responseNet, s, e, m) => m.type \in {"DATA"}
    BY DEF BacksInv
  <2>2. QED  BY <1>2, <2>1, Places
<1>8. BackTake(c, msg)
  <2>1. \A x \in Cache, y \in Addr : \A m :
          AtBack(x, y, m)' <=> AtBack(x, y, m) /\ ~(x = c /\ DirOf[y] = d /\ m = msg)
    BY <1>7, Places DEF AtBack
  <2>2. \A x, y, m : AtBack(x, y, m) => m.addr = y  BY DEF AtBack
  <2>3. QED  BY <1>5, <2>1, <2>2 DEF BackTake
<1>9. RespSame
  BY <1>1, <1>3 DEF RespTake, RespSame
<1>10. BacksInv'
  <2>1. \A s \in Node, e \in Dir : \A m :
          In(responseNet', s, e, m) => m.type = "DATA" /\ DirOf[m.addr] = e
    BY <1>7 DEF BacksInv
  <2>2. QED  BY <1>2, <2>1 DEF BacksInv, In
<1>11. QED  BY <1>3, <1>4, <1>5, <1>6, <1>8, <1>9, <1>10

-----------------------------------------------------------------------------
(* The contents of a line.                                                 *)

\* The states of a cache whose entry holds the block, and those of the directory
\* in which the memory is up to date.
Held == {"S", "SM_AD", "SM_A", "IM_A", "M"}
Clean == {"I", "IS_M", "S", "MS_M"}

\* A block that is readable, or on its way, holds all the stores so far.
ValueInv(a) ==
  /\ dirState[a] \in Clean => dirBlk[a] = lastWritten[a]
  /\ \A c \in Cache : cacheState[c][a] \in Held => entryBlk[c][a] = lastWritten[a]
  /\ \A c \in Cache : \A m : AtMem(c, a, m) => m.data = lastWritten[a]
  /\ \A c \in Cache : \A n, m : AtData(c, a, n, m) => m.data = lastWritten[a]
  /\ \A c \in Cache : \A m : AtBack(c, a, m) => m.data = lastWritten[a]

CoherentLines == \A a \in Addr : RoleInv(a) /\ ValueInv(a)

-----------------------------------------------------------------------------
(* The lines that a step leaves alone.                                     *)

SameMessages(c, a) ==
  /\ \A m : AtReq(c, a, m)' <=> AtReq(c, a, m)
  /\ \A m : AtMem(c, a, m)' <=> AtMem(c, a, m)
  /\ \A q, m : AtFwd(c, a, q, m)' <=> AtFwd(c, a, q, m)
  /\ \A n, m : AtData(c, a, n, m)' <=> AtData(c, a, n, m)
  /\ \A q \in Cache : InvTo(q, a, c)' <=> InvTo(q, a, c)
  /\ \A m : AtBack(c, a, m)' <=> AtBack(c, a, m)

SameCacheLine(c, a) ==
  cacheState'[c][a] = cacheState[c][a] /\ entryBlk'[c][a] = entryBlk[c][a]

SameLine(a) ==
  /\ dirState'[a] = dirState[a] /\ owner'[a] = owner[a] /\ sharers'[a] = sharers[a]
  /\ dirBlk'[a] = dirBlk[a] /\ lastWritten'[a] = lastWritten[a]
  /\ \A c \in Cache : SameMessages(c, a) /\ SameCacheLine(c, a)

Elsewhere(a0) == \A a \in Addr : a # a0 => SameLine(a)

\* A message is about the line that it names.
LEMMA Addressed ==
  /\ \A c, a, m : AtReq(c, a, m) => m.addr = a
  /\ \A c, a, m : AtMem(c, a, m) => m.addr = a /\ m.requestor = c
  /\ \A c, a, q, m : AtFwd(c, a, q, m) => m.addr = a /\ m.requestor = c
  /\ \A c, a, n, m : AtData(c, a, n, m) => m.addr = a
  /\ \A c, a, m : AtBack(c, a, m) => m.addr = a
  /\ \A a, c : InvMsg(a, c).addr = a /\ InvMsg(a, c).requestor = c /\ InvMsg(a, c).type = "INV"
  /\ \A a : AckMsg(a).addr = a /\ AckMsg(a).type = "ACK"
BY DEF AtReq, AtMem, AtFwd, AtData, AtBack, InvMsg, AckMsg

LEMMA SameRoleFrom ==
  ASSUME NEW c \in Cache, NEW a \in Addr, cacheState'[c][a] = cacheState[c][a],
         \A m : AtReq(c, a, m)' <=> AtReq(c, a, m),
         \A m : AtMem(c, a, m)' <=> AtMem(c, a, m),
         \A n, m : AtData(c, a, n, m)' <=> AtData(c, a, n, m)
  PROVE  SameRole(c, a)
<1>1. Asking(c, a)' <=> Asking(c, a)  BY DEF Asking
<1>2. Served(c, a)' <=> Served(c, a)  BY DEF Served
<1>3. QED  BY <1>1, <1>2 DEF SameRole, Exclusive, Token, Copy

LEMMA SameFwdsFrom ==
  ASSUME NEW a \in Addr, \A c \in Cache : \A q, m : AtFwd(c, a, q, m)' <=> AtFwd(c, a, q, m)
  PROVE  SameFwds(a)
BY DEF SameFwds, Fwd

LEMMA LineSame ==
  ASSUME NEW a \in Addr, SameLine(a), RoleInv(a), ValueInv(a)
  PROVE  RoleInv(a)' /\ ValueInv(a)'
<1>1. SameRoles(a)
  BY SameRoleFrom DEF SameLine, SameMessages, SameCacheLine, SameRoles
<1>2. SameFwds(a)
  BY SameFwdsFrom DEF SameLine, SameMessages
<1>3. SameInvs(a) /\ SameBack(a)
  BY DEF SameLine, SameMessages, SameInvs, SameBack
<1>4. RoleInv(a)'
  BY <1>1, <1>2, <1>3, RolesKept DEF SameLine
<1>5. ValueInv(a)'
  BY DEF ValueInv, SameLine, SameMessages, SameCacheLine
<1>6. QED  BY <1>4, <1>5

LEMMA OtherLines ==
  ASSUME CoherentLines, NEW a0 \in Addr, Elsewhere(a0), RoleInv(a0)', ValueInv(a0)'
  PROVE  CoherentLines'
BY LineSame DEF CoherentLines, Elsewhere

\* The moves of one message are about its line.
LEMMA MovesElsewhere ==
  ASSUME NEW a0 \in Addr,
         ReqSame \/ (\E c \in Cache : \E m : ReqPut(c, a0, m))
           \/ (\E c \in Cache : \E m : m.addr = a0 /\ ReqTake(c, m)),
         MemSame \/ (\E c \in Cache : \E m : MemPut(c, a0, m)) \/ (\E m : m.addr = a0 /\ MemTake(m)),
         FwdSame \/ (\E q \in Cache : \E m : m.addr = a0 /\ FwdTake(q, m))
           \/ (\E dsts, m : m.addr = a0 /\ FwdPut(dsts, m)),
         RespSame \/ (\E n \in Node, c \in Cache : \E m : m.addr = a0 /\ RespTake(n, c, m))
           \/ (\E n \in Node, c \in Cache : \E m : m.addr = a0 /\ RespPut(n, c, m)),
         BackSame \/ (\E c \in Cache : \E m : BackPut(c, a0, m))
           \/ (\E c \in Cache : \E m : m.addr = a0 /\ BackTake(c, m))
  PROVE  \A c \in Cache, a \in Addr : a # a0 => SameMessages(c, a)
<1> SUFFICES ASSUME NEW c \in Cache, NEW a \in Addr, a # a0 PROVE SameMessages(c, a)
  OBVIOUS
<1>1. \A m : AtReq(c, a, m)' <=> AtReq(c, a, m)
  BY Addressed DEF ReqSame, ReqPut, ReqTake
<1>2. \A m : AtMem(c, a, m)' <=> AtMem(c, a, m)
  BY Addressed DEF MemSame, MemPut, MemTake
<1>3. \A q, m : AtFwd(c, a, q, m)' <=> AtFwd(c, a, q, m)
  BY Addressed DEF FwdSame, FwdPut, FwdTake
<1>4. \A q \in Cache : InvTo(q, a, c)' <=> InvTo(q, a, c)
  BY Addressed DEF FwdSame, FwdPut, FwdTake
<1>5. \A n, m : AtData(c, a, n, m)' <=> AtData(c, a, n, m)
  BY Addressed DEF RespSame, RespPut, RespTake
<1>6. \A m : AtBack(c, a, m)' <=> AtBack(c, a, m)
  BY Addressed DEF BackSame, BackPut, BackTake
<1>7. QED  BY <1>1, <1>2, <1>3, <1>4, <1>5, <1>6 DEF SameMessages

\* A step of a cache on line a0, or of the directory.
CacheLineOnly(c0, a0) ==
  /\ \A c \in Cache, a \in Addr : ~(c = c0 /\ a = a0) => SameCacheLine(c, a)
  /\ \A a \in Addr : a # a0 => lastWritten'[a] = lastWritten[a]
  /\ UNCHANGED <<dirState, owner, sharers, dirBlk>>

DirLineOnly(a0) ==
  /\ \A a \in Addr : a # a0 => SameDir(a) /\ dirBlk'[a] = dirBlk[a]
  /\ UNCHANGED <<cacheState, entryBlk, lastWritten>>

LEMMA StepElsewhere ==
  ASSUME NEW a0 \in Addr, \A c \in Cache, a \in Addr : a # a0 => SameMessages(c, a),
         DirLineOnly(a0) \/ \E c0 \in Cache : CacheLineOnly(c0, a0)
  PROVE  Elsewhere(a0)
BY DEF Elsewhere, SameLine, SameCacheLine, DirLineOnly, CacheLineOnly, SameDir

\* An invalidation is sent for a cache that is served, or waits for acks.
LEMMA InvToken ==
  ASSUME TypeOK, MissInv, NEW q \in Cache, NEW a \in Addr, NEW p \in Cache, InvTo(q, a, p)
  PROVE  Token(p, a)
<1>1. q \in Due(p, a)  BY DEF Due
<1>2. pendingAcks[p][a] \in Int  BY DEF TypeOK, CacheTypeOK
<1>3. Class(p, a) = "acks" \/ (Class(p, a) = "store" /\ \E n, m : AtData(p, a, n, m))
  BY <1>1, <1>2, AckExpected DEF MissInv, Lines
<1>4. QED  BY <1>3, Classes DEF Class, Token, Served

\* A cache that waits for nothing is neither asking nor being served.
LEMMA IdleRole ==
  ASSUME MissInv, NEW c \in Cache, NEW a \in Addr, Class(c, a) = "none"
  PROVE  ~Asking(c, a) /\ ~Served(c, a) /\ \A q \in Cache : ~InvTo(q, a, c)
<1>1. /\ \A k, n, m : ~At(c, a, k, n, m)
      /\ Due(c, a) = {}
  BY Idle DEF MissInv
<1>2. QED  BY <1>1 DEF At, Due, Asking, Served

\* The cache with the token and no invalidation to wait for has the only block.
LEMMA StoreAlone ==
  ASSUME NEW a \in Addr, RoleInv(a), NEW c \in Cache, Token(c, a),
         \A q \in Cache : ~InvTo(q, a, c),
         \A q \in Cache : Served(q, a) => Class(q, a) \in {"load", "store"}
  PROVE  /\ \A q \in Cache : q # c => cacheState[q][a] \notin Held /\ ~Served(q, a)
         /\ \A q \in Cache : \A m : ~AtBack(q, a, m)
         /\ dirState[a] \notin Clean
<1>1. /\ \A q \in Cache : ~Copy(q, a) /\ (Token(q, a) => q = c)
      /\ \A q \in Cache : \A m : ~AtBack(q, a, m)
      /\ Exclusive(c, a) /\ Owned(a)
  BY WriterAlone
<1>2. dirState[a] \in {"M", "IM_M", "MS_D"}
  BY <1>1 DEF Owned, RoleInv, ForwardInv
<1>3. ASSUME NEW q \in Cache, q # c PROVE cacheState[q][a] \notin Held /\ ~Served(q, a)
  <2>1. ~Copy(q, a) /\ ~Token(q, a)  BY <1>1, <1>3
  <2>2. ~Served(q, a)  BY <2>1, Classes DEF Class, Token, Copy
  <2>3. QED  BY <2>1, <2>2 DEF Held, Token, Copy
<1>4. QED  BY <1>1, <1>2, <1>3 DEF Clean

\* Only a cache that waits is served.
LEMMA ServedClass ==
  ASSUME MissInv, NEW q \in Cache, NEW a \in Addr, Served(q, a)
  PROVE  Class(q, a) \in {"load", "store"} /\ ~Asking(q, a)
<1>1. PICK k, n, m : At(q, a, k, n, m) /\ k \in {"memory", "data"}
  BY DEF Served, At
<1>2. OnlyPlace(q, a, k, n, m) /\ Class(q, a) \in {"load", "store"}
  BY <1>1, FoundPlace DEF MissInv, Lines, LineInv
<1>3. \A y : ~AtReq(q, a, y)
  BY <1>1, <1>2, OnlyKind
<1>4. QED  BY <1>2, <1>3 DEF Asking

-----------------------------------------------------------------------------
(* What each step does to the lines.                                       *)

CoherenceInv == (Fitting => NoEviction) /\ NoDirty /\ BacksInv /\ CoherentLines

\* The step changes nothing that the lines' invariants speak of.
LEMMA QuietLines ==
  ASSUME BacksInv, CoherentLines,
         UNCHANGED <<requestNet, forwardNet, responseNet, memQueue, cacheState, entryBlk,
                     dirState, owner, sharers, dirBlk, lastWritten>>
  PROVE  BacksInv' /\ CoherentLines'
<1>1. BacksInv' /\ BackSame  BY BacksSame
<1>2. ReqSame /\ MemSame /\ FwdSame /\ RespSame
  BY DEF ReqSame, MemSame, FwdSame, RespSame, AtReq, AtMem, AtFwd, AtData, InvTo, AckFrom
<1>3. \A c \in Cache, a \in Addr : SameMessages(c, a)
  BY <1>1, <1>2 DEF SameMessages, ReqSame, MemSame, FwdSame, RespSame, BackSame
<1>4. \A a \in Addr : SameLine(a)
  BY <1>3 DEF SameLine, SameCacheLine
<1>5. QED  BY <1>1, <1>4, LineSame DEF CoherentLines

\* A cache asks for a line.
LEMMA AskLines ==
  ASSUME TypeOK, MissInv, CoherenceInv, NEW c \in Cache, NEW a \in Addr,
         Miss(c, a) \/ Upgrade(c, a), UNCHANGED dirVars
  PROVE  BacksInv' /\ CoherentLines'
<1>1. PICK type \in GetTypes, s \in {"IS_D", "IM_AD", "SM_AD"} :
        /\ sendRequest(c, a, type, None) /\ setCacheState(c, a, s)
        /\ type = "GETS" <=> s = "IS_D"
        /\ cacheState[c][a] = IF s = "SM_AD" THEN "S" ELSE "I"
  BY DEF Miss, Upgrade, GetTypes
<1>2. PICK v : allocateTBE(c, a, v)
  BY DEF Miss, Upgrade
<1>3. UNCHANGED <<forwardNet, responseNet, memQueue, entryBlk, lastWritten>>
  BY DEF Miss, Upgrade, dirVars
<1>4. PICK m0 : m0 = [type |-> type, addr |-> a, data |-> None]  OBVIOUS
<1>5. FwdSame /\ RespSame /\ MemSame /\ ReqPut(c, a, m0)
  BY <1>1, <1>2, <1>3, <1>4, AskDelta
<1>6. BacksInv' /\ BackSame  BY <1>3, BacksSame DEF CoherenceInv
<1>7. \A x \in Cache, y \in Addr :
        cacheState'[x][y] = IF x = c /\ y = a THEN s ELSE cacheState[x][y]
  BY <1>1, StateSet
<1>8. Class(c, a) = "none"  BY <1>1 DEF Class, ClassOf
<1>9. ~Served(c, a)  BY <1>8, IdleRole
<1>10. Asking(c, a)'  BY <1>5 DEF ReqPut, Asking
<1>11. ~Served(c, a)'
  BY <1>5, <1>9 DEF MemSame, RespSame, Served
<1>12. SameRole(c, a)
  BY <1>1, <1>7, <1>9, <1>10, <1>11 DEF SameRole, Exclusive, Token, Copy
<1>13. ASSUME NEW q \in Cache, q # c PROVE SameRole(q, a)
  BY <1>5, <1>7, <1>13, SameRoleFrom DEF ReqPut, MemSame, RespSame
<1>14. SameFwds(a) /\ SameInvs(a)
  BY <1>5, SameFwdsFrom DEF FwdSame, SameInvs
<1>15. SameBack(a)  BY <1>6 DEF BackSame, SameBack
<1>16. RoleInv(a) /\ ValueInv(a)  BY DEF CoherenceInv, CoherentLines
<1>17. RoleInv(a)'
  BY <1>12, <1>13, <1>14, <1>15, <1>16, RolesKept DEF SameRoles, dirVars
<1>18. ValueInv(a)'
  <2>1. \A x \in Cache : cacheState'[x][a] \in Held => cacheState[x][a] \in Held
    BY <1>1, <1>7 DEF Held
  <2>2. QED
    BY <1>3, <1>5, <1>6, <1>16, <2>1 DEF ValueInv, MemSame, RespSame, BackSame, dirVars
<1>19. Elsewhere(a)
  <2>1. \A x \in Cache, y \in Addr : y # a => SameMessages(x, y)
    BY <1>5, <1>6, MovesElsewhere
  <2>2. CacheLineOnly(c, a)
    BY <1>3, <1>7 DEF CacheLineOnly, SameCacheLine, dirVars
  <2>3. QED  BY <2>1, <2>2, StepElsewhere
<1>20. QED  BY <1>6, <1>17, <1>18, <1>19, OtherLines DEF CoherenceInv

\* A store into line a, after which cache c holds it with all the stores: no
\* other block of the line is left.
LEMMA StoreWritten ==
  ASSUME NEW a \in Addr, NEW c \in Cache, ValueInv(a),
         lastWritten'[a] = Merge[lastWritten[a]], entryBlk'[c][a] = Merge[lastWritten[a]],
         \A q \in Cache : q # c => cacheState'[q][a] \notin Held /\ ~Served(q, a)',
         ~Served(c, a)', \A q \in Cache : \A m : ~AtBack(q, a, m)', dirState'[a] \notin Clean
  PROVE  ValueInv(a)'
BY DEF ValueInv, Served

\* A store that hits.
LEMMA StoreHitLines ==
  ASSUME TypeOK, MissInv, CoherenceInv, NEW c \in Cache, NEW a \in Addr,
         StoreHit(c, a), UNCHANGED dirVars
  PROVE  BacksInv' /\ CoherentLines'
<1>1. /\ cacheState[c][a] = "M" /\ UNCHANGED <<requestNet, forwardNet, responseNet, memQueue, cacheState>>
      /\ writeCallback(c, a) /\ writeDataToCache(c, a, Merge[entryBlk[c][a]])
  BY DEF StoreHit, netVars, dirVars
<1>2. BacksInv' /\ BackSame  BY <1>1, BacksSame DEF CoherenceInv
<1>3. ReqSame /\ MemSame /\ FwdSame /\ RespSame
  BY <1>1 DEF ReqSame, MemSame, FwdSame, RespSame, AtReq, AtMem, AtFwd, AtData, InvTo, AckFrom
<1>4. RoleInv(a) /\ ValueInv(a)  BY DEF CoherenceInv, CoherentLines
<1>5. \A q \in Cache : SameRole(q, a)
  BY <1>1, <1>3, SameRoleFrom DEF ReqSame, MemSame, RespSame
<1>6. SameFwds(a) /\ SameInvs(a) /\ SameBack(a)
  BY <1>2, <1>3, SameFwdsFrom DEF FwdSame, SameInvs, BackSame, SameBack
<1>7. RoleInv(a)'
  BY <1>4, <1>5, <1>6, RolesKept DEF SameRoles, dirVars
<1>8. Class(c, a) = "none" /\ Token(c, a)  BY <1>1 DEF Class, ClassOf, Token
<1>9. ~Served(c, a) /\ \A q \in Cache : ~InvTo(q, a, c)
  BY <1>8, IdleRole
<1>10. /\ \A q \in Cache : q # c => cacheState[q][a] \notin Held /\ ~Served(q, a)
       /\ \A q \in Cache : \A m : ~AtBack(q, a, m)
       /\ dirState[a] \notin Clean
  BY <1>4, <1>8, <1>9, ServedClass, StoreAlone
<1>11. /\ \A x \in Cache, y \in Addr : ~(x = c /\ y = a) => entryBlk'[x][y] = entryBlk[x][y]
       /\ \A y \in Addr : y # a => lastWritten'[y] = lastWritten[y]
       /\ entryBlk'[c][a] = Merge[entryBlk[c][a]]
       /\ lastWritten'[a] = Merge[lastWritten[a]]
  BY <1>1 DEF writeCallback, writeDataToCache, TypeOK, CacheTypeOK, SeqTypeOK
<1>12. entryBlk[c][a] = lastWritten[a]
  BY <1>1, <1>4 DEF ValueInv, Held
<1>13. \A q \in Cache : ~Served(q, a)'
  BY <1>3, <1>9, <1>10 DEF MemSame, RespSame, Served
<1>14. ValueInv(a)'
  BY <1>1, <1>2, <1>4, <1>10, <1>11, <1>12, <1>13, StoreWritten DEF BackSame, dirVars
<1>15. Elsewhere(a)
  <2>1. \A x \in Cache, y \in Addr : y # a => SameMessages(x, y)
    BY <1>2, <1>3, MovesElsewhere
  <2>2. CacheLineOnly(c, a)
    BY <1>1, <1>11 DEF CacheLineOnly, SameCacheLine, dirVars
  <2>3. QED  BY <2>1, <2>2, StepElsewhere
<1>16. QED  BY <1>2, <1>7, <1>14, <1>15, OtherLines DEF CoherenceInv

LEMMA CacheMandatoryLines ==
  ASSUME TypeOK, MissInv, CoherenceInv, NEW c \in Cache, NEW a \in Addr, CacheMandatory(c, a)
  PROVE  BacksInv' /\ CoherentLines'
<1>1. MandatoryStep(c, a) /\ UNCHANGED dirVars  BY DEF CacheMandatory
<1>2. CASE Miss(c, a) \/ Upgrade(c, a)
  BY <1>1, <1>2, AskLines
<1>3. CASE StoreHit(c, a)
  BY <1>1, <1>3, StoreHitLines
<1>4. CASE LoadHit(c, a)
  <2>1. UNCHANGED <<requestNet, forwardNet, responseNet, memQueue, cacheState, entryBlk,
                    dirState, owner, sharers, dirBlk, lastWritten>>
    BY <1>1, <1>4 DEF LoadHit, readCallback, cacheVars, netVars, dirVars
  <2>2. QED  BY <2>1, QuietLines DEF CoherenceInv
<1>5. QED  BY <1>1, <1>2, <1>3, <1>4 DEF MandatoryStep

LEMMA TokenOwned ==
  ASSUME NEW a \in Addr, RoleInv(a), NEW p \in Cache, Token(p, a)
  PROVE  Owned(a) /\ \A q \in Cache : Token(q, a) => q = p
BY DEF RoleInv, QueueInv, QueueOf

\* A copy is invalidated.
LEMMA InvLines ==
  ASSUME TypeOK, MissInv, CoherenceInv, NEW c \in Cache, NEW d \in Dir, Inv(c, d), UNCHANGED dirVars
  PROVE  BacksInv' /\ CoherentLines'
<1>m. PICK m : m = Head(forwardNet[d][c])  OBVIOUS
<1>1. /\ m.addr \in Addr /\ m.requestor \in Cache /\ m = InvMsg(m.addr, m.requestor)
      /\ InvTo(c, m.addr, m.requestor)
      /\ FwdTake(c, m) /\ RespPut(c, m.requestor, AckMsg(m.addr)) /\ ReqSame
  BY <1>m, InvDelta
<1>a. PICK a \in Addr : a = m.addr  BY <1>1
<1>p. PICK p \in Cache : p = m.requestor  BY <1>1
<1>2. /\ responseNet' = Send(responseNet, c, p, AckMsg(a))
      /\ setCacheState(c, a, AfterInv[cacheState[c][a]])
      /\ IF cacheState[c][a] = "S" THEN writeDataToCache(c, a, None) ELSE UNCHANGED entryBlk
      /\ UNCHANGED lastWritten
      /\ cacheState[c][a] # "IS_D"
  BY <1>m, <1>a, <1>p DEF Inv, Forwarded, InvStalls, sendResponse, AckMsg, seqVars
<1>3. BacksInv' /\ BackSame
  <2>1. AckMsg(a) \in ResponseMsg /\ AckMsg(a).type # "DATA"
    BY Constants DEF AckMsg, ResponseMsg
  <2>2. QED  BY <1>2, <2>1, BacksOnSend, Places DEF CoherenceInv
<1>4. MemSame  BY MemUnchanged DEF dirVars
<1>5. RoleInv(a) /\ ValueInv(a)  BY DEF CoherenceInv, CoherentLines
<1>6. InvTo(c, a, p) /\ cacheState[c][a] \in {"I", "S", "SM_AD", "SI_A"}
  BY <1>m, <1>1, <1>a, <1>p DEF Inv, Forwarded, AfterInv
<1>7. \/ cacheState[c][a] \in {"I", "S"} /\ AfterInv[cacheState[c][a]] = "I"
      \/ cacheState[c][a] = "SM_AD" /\ AfterInv[cacheState[c][a]] = "IM_AD"
      \/ cacheState[c][a] = "SI_A" /\ AfterInv[cacheState[c][a]] = "II_A"
  BY <1>6 DEF AfterInv
<1>8. \A x \in Cache, y \in Addr :
        cacheState'[x][y] = IF x = c /\ y = a THEN AfterInv[cacheState[c][a]] ELSE cacheState[x][y]
  BY <1>2, StateSet
<1>9. \A x \in Cache, y \in Addr : \A n, k : AtData(x, y, n, k)' <=> AtData(x, y, n, k)
  BY <1>1, Addressed DEF RespPut, DataTypes
<1>10. /\ Asking(c, a)' <=> Asking(c, a)
       /\ Served(c, a)' <=> Served(c, a)
  BY <1>1, <1>4, <1>9 DEF ReqSame, MemSame, Asking, Served
<1>11. /\ Exclusive(c, a)' <=> Exclusive(c, a)
       /\ Token(c, a)' <=> Token(c, a)
       /\ ~Copy(c, a)'
  BY <1>7, <1>8, <1>10 DEF Exclusive, Token, Copy
<1>12. RolesExcept(a, c)
  BY <1>1, <1>4, <1>8, <1>9, SameRoleFrom DEF RolesExcept, ReqSame, MemSame
<1>13. /\ \A x \in Cache : \A q, k : AtFwd(x, a, q, k)' <=> AtFwd(x, a, q, k)
       /\ \A q, x \in Cache : InvTo(q, a, x)' <=> InvTo(q, a, x) /\ ~(q = c /\ x = p)
  <2>1. \A x, q, k : AtFwd(x, a, q, k) => k # m
    BY <1>1, Addressed DEF AtFwd, GetTypes
  <2>2. \A x \in Cache : m = InvMsg(a, x) <=> x = p
    BY <1>1, <1>a, <1>p, Addressed
  <2>3. QED  BY <1>1, <2>1, <2>2 DEF FwdTake
<1>14. SameFwds(a)  BY <1>13, SameFwdsFrom
<1>15. SameBack(a)  BY <1>3 DEF BackSame, SameBack
<1>16. Owned(a) /\ \A q \in Cache : InvTo(c, a, q) => q = p
  BY <1>5, <1>6, InvToken, TokenOwned
<1>17. RoleInv(a)'
  BY <1>5, <1>6, <1>11, <1>12, <1>13, <1>14, <1>15, <1>16, CopyLost DEF SameDir, dirVars
<1>18. /\ \A x \in Cache, y \in Addr : ~(x = c /\ y = a) => entryBlk'[x][y] = entryBlk[x][y]
       /\ cacheState'[c][a] \notin Held
  BY <1>2, <1>7, <1>8 DEF writeDataToCache, TypeOK, CacheTypeOK, Held
<1>19. ValueInv(a)'
  BY <1>2, <1>3, <1>4, <1>5, <1>8, <1>9, <1>18 DEF ValueInv, MemSame, BackSame, dirVars
<1>20. Elsewhere(a)
  <2>1. AckMsg(a).addr = a  BY Addressed
  <2>2. \A x \in Cache, y \in Addr : y # a => SameMessages(x, y)
    BY <1>1, <1>3, <1>4, <1>a, <2>1, Places, MovesElsewhere
  <2>3. CacheLineOnly(c, a)
    BY <1>2, <1>8, <1>18 DEF CacheLineOnly, SameCacheLine, dirVars
  <2>4. QED  BY <2>2, <2>3, StepElsewhere
<1>21. QED  BY <1>3, <1>17, <1>19, <1>20, OtherLines DEF CoherenceInv

\* A forward that is taken was the only one of its requestor.
LEMMA ForwardTakenOnce ==
  ASSUME NEW a \in Addr, NEW o \in Cache, NEW r \in Cache, NEW m, AtFwd(r, a, o, m),
         OnlyPlace(r, a, "forward", o, m), FwdTake(o, m)
  PROVE  FwdLess(a, o, m.type, r) /\ SameInvs(a) /\ Fwd(o, a, m.type, r)
<1>1. \A q, k : AtFwd(r, a, q, k) => q = o /\ k = m
  BY OnlyKind
<1>2. ASSUME NEW q \in Cache, NEW s \in Cache, NEW t
      PROVE  Fwd(q, a, t, s)' <=> Fwd(q, a, t, s) /\ ~(q = o /\ t = m.type /\ s = r)
  <2>1. \A k : AtFwd(s, a, q, k)' <=> AtFwd(s, a, q, k) /\ ~(q = o /\ k = m)
    BY DEF FwdTake
  <2>2. \A k : AtFwd(s, a, q, k) /\ k = m => s = r
    BY Addressed
  <2>3. QED  BY <1>1, <2>1, <2>2 DEF Fwd
<1>3. m.type # "INV"  BY DEF AtFwd, GetTypes
<1>4. SameInvs(a)  BY <1>3, Addressed DEF FwdTake, SameInvs
<1>5. QED  BY <1>2, <1>4 DEF FwdLess, Fwd

\* The owner answers a forward.
LEMMA OwnerLines ==
  ASSUME TypeOK, DirectoryEntries, Running, MissInv, CoherenceInv, NEW c \in Cache, NEW d \in Dir,
         Fwd_GetS(c, d) \/ Fwd_GetM(c, d), UNCHANGED dirVars
  PROVE  BacksInv' /\ CoherentLines'
<1>m. PICK m : m = Head(forwardNet[d][c])  OBVIOUS
<1>1. /\ m.addr \in Addr /\ m.requestor \in Cache /\ m.type \in GetTypes
      /\ AtFwd(m.requestor, m.addr, c, m)
      /\ cacheState[c][m.addr] \in {"M", "MI_A"}
      /\ \E v \in DataBlk :
           /\ v = IF cacheState[c][m.addr] = "M" THEN entryBlk[c][m.addr] ELSE tbeBlk[c][m.addr]
           /\ RespPut(c, m.requestor, [type |-> "DATA_FROM_OWNER", addr |-> m.addr,
                                       data |-> v, ackCount |-> 0])
      /\ FwdTake(c, m) /\ ReqSame
  BY <1>m, OwnerDelta
<1>a. PICK a \in Addr : a = m.addr  BY <1>1
<1>r. PICK r \in Cache : r = m.requestor  BY <1>1
<1>2. cacheState[c][a] = "M"  BY <1>1, <1>a DEF CoherenceInv, NoDirty
<1>v. PICK v \in DataBlk : v = entryBlk[c][a]  BY <1>1, <1>2, <1>a
<1>3. PICK data : data = [type |-> "DATA_FROM_OWNER", addr |-> a, data |-> v, ackCount |-> 0]
  OBVIOUS
<1>4. /\ RespPut(c, r, data) /\ data \in ResponseMsg
      /\ data.type = "DATA_FROM_OWNER" /\ data.addr = a /\ data.data = v
  <2>1. RespPut(c, r, data)  BY <1>1, <1>2, <1>3, <1>a, <1>r, <1>v
  <2>2. QED  BY <1>3, <2>1 DEF ResponseMsg
<1>5. AtFwd(r, a, c, m) /\ OnlyPlace(r, a, "forward", c, m)
      /\ (Class(r, a) \in {"load", "store"}) /\ (m.type = "GETS" <=> Class(r, a) = "load")
  <2>1. AtFwd(r, a, c, m) /\ At(r, a, "forward", c, m)  BY <1>1, <1>a, <1>r DEF At
  <2>2. QED  BY <2>1, FoundPlace DEF MissInv, Lines, LineInv
<1>6. FwdLess(a, c, m.type, r) /\ SameInvs(a) /\ Fwd(c, a, m.type, r)
  BY <1>1, <1>5, ForwardTakenOnce
<1>7. Class(c, a) = "none" /\ Token(c, a)  BY <1>2 DEF Class, ClassOf, Token
<1>8. c # r  BY <1>5, <1>7
<1>9. ~Served(c, a) /\ \A q \in Cache : ~InvTo(q, a, c)  BY <1>7, IdleRole
<1>10. MemSame  BY MemUnchanged DEF dirVars
<1>11. RoleInv(a) /\ ValueInv(a)  BY DEF CoherenceInv, CoherentLines
<1>12. v = lastWritten[a]  BY <1>2, <1>11, <1>v DEF ValueInv, Held
<1>13. \A q \in Cache : \A k : ~AtBack(q, a, k)
  BY <1>7, <1>11, TokenOwned DEF RoleInv, BackInv
<1>14. ASSUME NEW q \in Cache, NEW y \in Addr, ~(q = r /\ y = a)
       PROVE  \A n, k : AtData(q, y, n, k)' <=> AtData(q, y, n, k)
  BY <1>4, <1>14 DEF RespPut
<1>15. \A n, k : AtData(r, a, n, k)' <=> AtData(r, a, n, k) \/ (n = c /\ k = data)
  BY <1>4 DEF RespPut, DataTypes
<1>16. Served(r, a)' /\ (Asking(r, a)' <=> Asking(r, a))
  BY <1>1, <1>15 DEF Served, ReqSame, Asking
<1>17. UNCHANGED lastWritten  BY DEF Fwd_GetS, Fwd_GetM, seqVars
<1>18. CASE Fwd_GetS(c, d)
  <2>1. m.type = "GETS" /\ setCacheState(c, a, "S") /\ entryBlk' = entryBlk
    BY <1>m, <1>2, <1>18, <1>a DEF Fwd_GetS, Forwarded
  <2>2. PICK k : k = [type |-> "DATA", addr |-> a, data |-> v, ackCount |-> 0]  OBVIOUS
  <2>3. k \in ResponseMsg /\ k.type = "DATA" /\ k.addr = a /\ k.data = v
    BY <2>2 DEF ResponseMsg
  <2>4. responseNet' = Send(Send(responseNet, c, r, data), c, DirOf[a], k)
    BY <1>m, <1>2, <1>3, <1>18, <1>a, <1>r, <1>v, <2>2 DEF Fwd_GetS, sendResponse
  <2>5. BacksInv' /\ BackPut(c, a, k)
    BY <1>4, <1>13, <2>3, <2>4, BacksPut DEF CoherenceInv
  <2>6. \A x \in Cache, y \in Addr :
          cacheState'[x][y] = IF x = c /\ y = a THEN "S" ELSE cacheState[x][y]
    BY <2>1, StateSet
  <2>7. cacheState[r][a] = "IS_D"
    BY <1>5, <2>1, Classes DEF Class
  <2>8. ~Exclusive(c, a)' /\ ~Token(c, a)' /\ Copy(c, a)'
    BY <2>6 DEF Exclusive, Token, Copy
  <2>9. /\ Exclusive(r, a)' <=> Exclusive(r, a)
        /\ Token(r, a)' <=> Token(r, a)
        /\ Copy(r, a)'
    BY <1>8, <1>16, <2>6, <2>7 DEF Exclusive, Token, Copy
  <2>10. \A q \in Cache : q \notin {c, r} => SameRole(q, a)
    BY <1>1, <1>10, <1>14, <2>6, SameRoleFrom DEF ReqSame, MemSame
  <2>11. owner[a] = {}
    BY <1>6, <1>11, <2>1 DEF RoleInv, ForwardInv, DirectoryEntries, Running
  <2>12. \A q \in Cache : \A x : AtBack(q, a, x)' <=> AtBack(q, a, x) \/ (q = c /\ x = k)
    BY <2>5 DEF BackPut
  <2>13. SameDir(a)  BY DEF SameDir, dirVars
  <2>14. RoleInv(a)'
    BY <1>6, <1>7, <1>8, <1>9, <1>11, <2>1, <2>8, <2>9, <2>10, <2>11, <2>12, <2>13, OwnerShares
  <2>15. ValueInv(a)'
    <3>1. \A q \in Cache : cacheState'[q][a] \in Held => cacheState[q][a] \in Held
      BY <1>2, <2>6 DEF Held
    <3>2. \A q \in Cache : \A n, x : AtData(q, a, n, x)' => x.data = lastWritten[a]
      BY <1>4, <1>11, <1>12, <1>14, <1>15 DEF ValueInv
    <3>3. \A q \in Cache : \A x : AtBack(q, a, x)' => x.data = lastWritten[a]
      BY <1>12, <1>13, <2>3, <2>12
    <3>4. QED  BY <1>10, <1>11, <1>17, <2>1, <3>1, <3>2, <3>3 DEF ValueInv, MemSame, dirVars
  <2>16. Elsewhere(a)
    <3>1. \A x \in Cache, y \in Addr : y # a => SameMessages(x, y)
      BY <1>1, <1>4, <1>10, <1>a, <2>5, Places, MovesElsewhere
    <3>2. CacheLineOnly(c, a)
      BY <1>17, <2>1, <2>6 DEF CacheLineOnly, SameCacheLine, dirVars
    <3>3. QED  BY <3>1, <3>2, StepElsewhere
  <2>17. QED  BY <2>5, <2>14, <2>15, <2>16, OtherLines DEF CoherenceInv
<1>19. CASE Fwd_GetM(c, d)
  <2>1. m.type = "GETM" /\ setCacheState(c, a, "I") /\ writeDataToCache(c, a, None)
    BY <1>m, <1>2, <1>19, <1>a DEF Fwd_GetM, Forwarded
  <2>2. responseNet' = Send(responseNet, c, r, data)
    BY <1>m, <1>2, <1>3, <1>19, <1>a, <1>r, <1>v DEF Fwd_GetM, sendResponse
  <2>3. BacksInv' /\ BackSame
    BY <1>4, <2>2, BacksOnSend, Places DEF CoherenceInv
  <2>4. \A x \in Cache, y \in Addr :
          cacheState'[x][y] = IF x = c /\ y = a THEN "I" ELSE cacheState[x][y]
    BY <2>1, StateSet
  <2>5. cacheState[r][a] \in {"IM_AD", "SM_AD"}
    BY <1>5, <2>1, Classes DEF Class
  <2>6. ~Exclusive(c, a)' /\ ~Token(c, a)' /\ ~Copy(c, a)'
    BY <2>4 DEF Exclusive, Token, Copy
  <2>7. /\ Exclusive(r, a)' <=> Exclusive(r, a)
        /\ Token(r, a)' /\ ~Copy(r, a)'
    BY <1>8, <1>16, <2>4, <2>5 DEF Exclusive, Token, Copy
  <2>8. \A q \in Cache : q \notin {c, r} => SameRole(q, a)
    BY <1>1, <1>10, <1>14, <2>4, SameRoleFrom DEF ReqSame, MemSame
  <2>9. SameBack(a) /\ SameDir(a)  BY <2>3 DEF BackSame, SameBack, SameDir, dirVars
  <2>10. RoleInv(a)'
    BY <1>6, <1>7, <1>9, <1>11, <2>1, <2>6, <2>7, <2>8, <2>9, OwnerYields
  <2>11. \A x \in Cache, y \in Addr : ~(x = c /\ y = a) => entryBlk'[x][y] = entryBlk[x][y]
    BY <2>1 DEF writeDataToCache, TypeOK, CacheTypeOK
  <2>12. ValueInv(a)'
    <3>1. \A q \in Cache : cacheState'[q][a] \in Held => cacheState[q][a] \in Held /\ q # c
      BY <2>4 DEF Held
    <3>2. \A q \in Cache : \A n, x : AtData(q, a, n, x)' => x.data = lastWritten[a]
      BY <1>4, <1>11, <1>12, <1>14, <1>15 DEF ValueInv
    <3>3. QED  BY <1>10, <1>11, <1>17, <2>3, <2>11, <3>1, <3>2 DEF ValueInv, MemSame, BackSame, dirVars
  <2>13. Elsewhere(a)
    <3>1. \A x \in Cache, y \in Addr : y # a => SameMessages(x, y)
      BY <1>1, <1>4, <1>10, <1>a, <2>3, Places, MovesElsewhere
    <3>2. CacheLineOnly(c, a)
      BY <1>17, <2>4, <2>11 DEF CacheLineOnly, SameCacheLine, dirVars
    <3>3. QED  BY <3>1, <3>2, StepElsewhere
  <2>14. QED  BY <2>3, <2>10, <2>12, <2>13, OtherLines DEF CoherenceInv
<1>20. QED  BY <1>18, <1>19

\* The eviction of a line is acknowledged, once or again.
LEMMA WBAckLines ==
  ASSUME TypeOK, MissInv, CoherenceInv, NEW c \in Cache, NEW d \in Dir, WB_Ack(c, d),
         UNCHANGED dirVars
  PROVE  BacksInv' /\ CoherentLines'
<1>a. PICK a : a = Head(forwardNet[d][c]).addr  OBVIOUS
<1>1. a \in Addr /\ ReqSame /\ FwdSame /\ RespSame  BY <1>a, WBAckDelta
<1>2. /\ cacheState[c][a] \in {"I", "SI_A", "II_A"}
      /\ setCacheState(c, a, "I") /\ writeDataToCache(c, a, None)
      /\ UNCHANGED <<responseNet, lastWritten>>
  BY <1>a, <1>1 DEF WB_Ack, Forwarded, CoherenceInv, NoDirty, seqVars
<1>3. BacksInv' /\ BackSame  BY <1>2, BacksSame DEF CoherenceInv
<1>4. MemSame  BY MemUnchanged DEF dirVars
<1>5. RoleInv(a) /\ ValueInv(a)  BY <1>1 DEF CoherenceInv, CoherentLines
<1>6. \A x \in Cache, y \in Addr :
        cacheState'[x][y] = IF x = c /\ y = a THEN "I" ELSE cacheState[x][y]
  BY <1>1, <1>2, StateSet
<1>7. SameRole(c, a)
  BY <1>1, <1>2, <1>6 DEF SameRole, Exclusive, Token, Copy
<1>8. ASSUME NEW q \in Cache, q # c PROVE SameRole(q, a)
  BY <1>1, <1>4, <1>6, <1>8, SameRoleFrom DEF ReqSame, MemSame, RespSame
<1>9. SameFwds(a) /\ SameInvs(a) /\ SameBack(a)
  BY <1>1, <1>3, SameFwdsFrom DEF FwdSame, SameInvs, BackSame, SameBack
<1>10. RoleInv(a)'
  BY <1>1, <1>5, <1>7, <1>8, <1>9, RolesKept DEF SameRoles, dirVars
<1>11. \A x \in Cache, y \in Addr : ~(x = c /\ y = a) => entryBlk'[x][y] = entryBlk[x][y]
  BY <1>2 DEF writeDataToCache, TypeOK, CacheTypeOK
<1>12. ValueInv(a)'
  <2>1. \A q \in Cache : cacheState'[q][a] \in Held => cacheState[q][a] \in Held /\ q # c
    BY <1>1, <1>6 DEF Held
  <2>2. QED
    BY <1>1, <1>2, <1>3, <1>4, <1>5, <1>11, <2>1 DEF ValueInv, MemSame, RespSame, BackSame, dirVars
<1>13. Elsewhere(a)
  <2>1. \A x \in Cache, y \in Addr : y # a => SameMessages(x, y)
    BY <1>1, <1>3, <1>4, MovesElsewhere
  <2>2. CacheLineOnly(c, a)
    BY <1>1, <1>2, <1>6, <1>11 DEF CacheLineOnly, SameCacheLine, dirVars
  <2>3. QED  BY <1>1, <2>1, <2>2, StepElsewhere
<1>14. QED  BY <1>1, <1>3, <1>10, <1>12, <1>13, OtherLines DEF CoherenceInv

\* A cache evicts a line that it has not written.
LEMMA CacheReplacementLines ==
  ASSUME TypeOK, MissInv, CoherenceInv, ~DirtyEviction, NEW c \in Cache, NEW a \in Addr,
         Replacement(c, a), UNCHANGED dirVars
  PROVE  BacksInv' /\ CoherentLines'
<1>1. ReqSame /\ FwdSame /\ RespSame /\ MemSame  BY ReplacementDelta
<1>2. cacheState[c][a] = "S"  BY CacheReplacementClean DEF CoherenceInv
<1>3. setCacheState(c, a, "SI_A") /\ UNCHANGED <<responseNet, entryBlk, lastWritten>>
  BY <1>2 DEF Replacement, seqVars
<1>4. ~Fitting
  <2>1. PICK x \in mandatoryQueue[c] : ~Fits(c, x)  BY DEF Replacement
  <2>2. x \in Addr  BY DEF TypeOK, SeqTypeOK
  <2>3. QED  BY <2>1, <2>2, RoomLeft
<1>5. BacksInv' /\ BackSame  BY <1>3, BacksSame DEF CoherenceInv
<1>6. RoleInv(a) /\ ValueInv(a)  BY DEF CoherenceInv, CoherentLines
<1>7. \A x \in Cache, y \in Addr :
        cacheState'[x][y] = IF x = c /\ y = a THEN "SI_A" ELSE cacheState[x][y]
  BY <1>3, StateSet
<1>8. /\ Exclusive(c, a)' <=> Exclusive(c, a)
      /\ Token(c, a)' <=> Token(c, a)
      /\ ~Copy(c, a)'
  BY <1>2, <1>7 DEF Exclusive, Token, Copy
<1>9. RolesExcept(a, c)
  BY <1>1, <1>7, SameRoleFrom DEF RolesExcept, ReqSame, MemSame, RespSame
<1>10. SameFwds(a) /\ SameInvs(a) /\ SameBack(a)
  BY <1>1, <1>5, SameFwdsFrom DEF FwdSame, SameInvs, BackSame, SameBack
<1>11. RoleInv(a)'
  BY <1>4, <1>6, <1>8, <1>9, <1>10, CopyDropped DEF SameDir, dirVars
<1>12. ValueInv(a)'
  <2>1. \A q \in Cache : cacheState'[q][a] \in Held => cacheState[q][a] \in Held
    BY <1>2, <1>7 DEF Held
  <2>2. QED
    BY <1>1, <1>3, <1>5, <1>6, <2>1 DEF ValueInv, MemSame, RespSame, BackSame, dirVars
<1>13. Elsewhere(a)
  <2>1. \A x \in Cache, y \in Addr : y # a => SameMessages(x, y)
    BY <1>1, <1>5, MovesElsewhere
  <2>2. CacheLineOnly(c, a)
    BY <1>3, <1>7 DEF CacheLineOnly, SameCacheLine, dirVars
  <2>3. QED  BY <2>1, <2>2, StepElsewhere
<1>14. QED  BY <1>5, <1>11, <1>12, <1>13, OtherLines DEF CoherenceInv

LEMMA CacheForwardLines ==
  ASSUME TypeOK, DirectoryEntries, MissInv, CoherenceInv, NEW c \in Cache, NEW d \in Dir,
         CacheForward(c, d)
  PROVE  BacksInv' /\ CoherentLines'
<1>1. Running /\ ForwardStep(c, d) /\ UNCHANGED dirVars  BY DEF CacheForward
<1>2. CASE WB_Ack(c, d)
  BY <1>1, <1>2, WBAckLines
<1>3. CASE Inv(c, d)
  BY <1>1, <1>3, InvLines
<1>4. CASE Fwd_GetS(c, d) \/ Fwd_GetM(c, d)
  BY <1>1, <1>4, OwnerLines
<1>5. CASE ForwardStall(c, d)
  <2>1. UNCHANGED <<requestNet, forwardNet, responseNet, memQueue, cacheState, entryBlk,
                    dirState, owner, sharers, dirBlk, lastWritten>>
    BY <1>1, <1>5 DEF ForwardStall, cacheVars, seqVars, dirVars
  <2>2. QED  BY <2>1, QuietLines DEF CoherenceInv
<1>6. QED  BY <1>1, <1>2, <1>3, <1>4, <1>5 DEF ForwardStep

\* Cache c takes the response m of line a from node n: what it changes of the line.
LineServed(c, n, m, a) ==
  /\ a \in Addr /\ m \in ResponseMsg /\ BackSame
  /\ RespTake(n, c, m) /\ ReqSame /\ FwdSame /\ MemSame
  /\ \A x \in Cache, y \in Addr : ~(x = c /\ y = a) => cacheState'[x][y] = cacheState[x][y]
  /\ SameRole(c, a)
  /\ LoadData(c, n) \/ StoreData(c, n) => AtData(c, a, n, m)
  /\ StoreDone(c, n) =>
       /\ Token(c, a) /\ ~Served(c, a)' /\ cacheState'[c][a] = "M"
       /\ \/ AtData(c, a, n, m) /\ entryBlk'[c][a] = Merge[m.data]
          \/ cacheState[c][a] \in Held /\ entryBlk'[c][a] = Merge[entryBlk[c][a]]

LEMMA ResponseRoles ==
  ASSUME TypeOK, MissInv, CoherenceInv, NEW c \in Cache, NEW n \in Node, CacheResponse(c, n),
         NEW m, m = Head(responseNet[n][c]), NEW a, a = m.addr
  PROVE  BacksInv' /\ LineServed(c, n, m, a)
<1>1. ResponseStep(c, n) /\ memQueue' = memQueue  BY DEF CacheResponse, dirVars
<1>2. /\ responseNet[n][c] # <<>> /\ responseNet' = Pop(responseNet, n, c)
      /\ UNCHANGED <<requestNet, forwardNet, memQueue>>
  BY <1>1 DEF ResponseStep, LoadData, StoreData, Inv_Ack, StoreDone, Responded, popResponse
<1>3. /\ m \in ResponseMsg /\ a \in Addr /\ pendingAcks[c][a] \in Int
      /\ m.type = "ACK" => m = AckMsg(a)
      /\ m.type \in DataTypes => AtData(c, a, n, m)
      /\ RespTake(n, c, m) /\ ReqSame /\ FwdSame /\ MemSame
  BY <1>2, TakeDelta
<1>4. BacksInv' /\ BackSame  BY <1>2, BacksOnTake DEF CoherenceInv
<1>5. ASSUME m.type \in DataTypes PROVE ~Served(c, a)' /\ ~Asking(c, a)' /\ Served(c, a) /\ ~Asking(c, a)
  <2>1. At(c, a, "data", n, m) /\ AtData(c, a, n, m)  BY <1>3, <1>5 DEF At
  <2>2. OnlyPlace(c, a, "data", n, m)  BY <1>3, <2>1, FoundPlace DEF MissInv, Lines, LineInv
  <2>3. /\ \A k : ~AtReq(c, a, k) /\ ~AtMem(c, a, k)
        /\ \A x, k : AtData(c, a, x, k) => x = n /\ k = m
    BY <1>3, <2>2, OnlyKind
  <2>4. QED  BY <1>3, <2>1, <2>3 DEF RespTake, ReqSame, MemSame, Served, Asking
<1>6. ASSUME m.type = "ACK" PROVE (Served(c, a)' <=> Served(c, a)) /\ (Asking(c, a)' <=> Asking(c, a))
  <2>1. \A x, k : AtData(c, a, x, k)' <=> AtData(c, a, x, k)
    BY <1>3, <1>6, Addressed DEF RespTake, AtData, DataTypes
  <2>2. QED  BY <1>3, <2>1 DEF ReqSame, MemSame, Served, Asking
<1>7. CASE LoadData(c, n)
  <2>1. m.type \in DataTypes /\ cacheState[c][a] = "IS_D" /\ setCacheState(c, a, "S")
    BY <1>3, <1>7, EventCases DEF LoadData, Responded, DataTypes
  <2>2. \A x \in Cache, y \in Addr :
          cacheState'[x][y] = IF x = c /\ y = a THEN "S" ELSE cacheState[x][y]
    BY <1>3, <2>1, StateSet
  <2>3. SameRole(c, a)
    BY <1>3, <1>5, <2>1, <2>2 DEF SameRole, Exclusive, Token, Copy
  <2>4. ~StoreDone(c, n)  BY <2>1 DEF StoreDone, Responded
  <2>5. QED  BY <1>3, <1>4, <2>1, <2>2, <2>3, <2>4 DEF LineServed
<1>8. CASE StoreData(c, n)
  <2>1. /\ m.type \in DataTypes /\ cacheState[c][a] \in {"IM_AD", "SM_AD"}
        /\ ResponseEvent(c, m) = "Data_from_Dir_Ack_Cnt"
    BY <1>3, <1>8, EventCases DEF StoreData, Responded, DataTypes
  <2>2. PICK s \in {"IM_A", "SM_A"} : setCacheState(c, a, s)
    BY <1>8 DEF StoreData
  <2>3. \A x \in Cache, y \in Addr :
          cacheState'[x][y] = IF x = c /\ y = a THEN s ELSE cacheState[x][y]
    BY <1>3, <2>2, StateSet
  <2>4. SameRole(c, a)
    BY <1>3, <1>5, <2>1, <2>3 DEF SameRole, Exclusive, Token, Copy
  <2>5. ~StoreDone(c, n)  BY <2>1 DEF StoreDone, Responded
  <2>6. QED  BY <1>3, <1>4, <2>1, <2>3, <2>4, <2>5 DEF LineServed
<1>9. CASE Inv_Ack(c, n)
  <2>1. m.type = "ACK" /\ ResponseEvent(c, m) = "Inv_Ack" /\ cacheState' = cacheState
    BY <1>3, <1>9, EventCases DEF Inv_Ack, Responded
  <2>2. SameRole(c, a)
    BY <1>6, <2>1 DEF SameRole, Exclusive, Token, Copy
  <2>3. ~StoreDone(c, n) /\ ~LoadData(c, n) /\ ~StoreData(c, n)
    BY <2>1 DEF StoreDone, LoadData, StoreData, Responded
  <2>4. QED  BY <1>3, <1>4, <2>1, <2>2, <2>3 DEF LineServed
<1>10. CASE StoreDone(c, n)
  <2>1. setCacheState(c, a, "M")  BY <1>10 DEF StoreDone
  <2>2. \A x \in Cache, y \in Addr :
          cacheState'[x][y] = IF x = c /\ y = a THEN "M" ELSE cacheState[x][y]
    BY <1>3, <2>1, StateSet
  <2>3. \/ /\ m.type \in DataTypes /\ cacheState[c][a] \in {"IM_AD", "SM_AD"}
           /\ writeDataToCache(c, a, Merge[m.data])
        \/ /\ m.type = "ACK" /\ cacheState[c][a] \in {"IM_A", "SM_A"}
           /\ writeDataToCache(c, a, Merge[entryBlk[c][a]])
    BY <1>3, <1>10, EventCases DEF StoreDone, Responded, DataTypes
  <2>4. \A v : writeDataToCache(c, a, v) => entryBlk'[c][a] = v
    BY <1>3 DEF writeDataToCache, TypeOK, CacheTypeOK
  <2>5. ~LoadData(c, n) /\ ~StoreData(c, n)
    BY <1>10 DEF LoadData, StoreData, Responded, StoreDone
  <2>6. CASE m.type \in DataTypes
    <3>1. cacheState[c][a] \in {"IM_AD", "SM_AD"} /\ entryBlk'[c][a] = Merge[m.data]
      BY <2>3, <2>4, <2>6 DEF DataTypes
    <3>2. SameRole(c, a) /\ Token(c, a)
      BY <1>3, <1>5, <2>2, <2>6, <3>1 DEF SameRole, Exclusive, Token, Copy
    <3>3. QED  BY <1>3, <1>4, <1>5, <2>2, <2>5, <2>6, <3>1, <3>2 DEF LineServed
  <2>7. CASE m.type = "ACK"
    <3>1. cacheState[c][a] \in {"IM_A", "SM_A"} /\ entryBlk'[c][a] = Merge[entryBlk[c][a]]
      BY <2>3, <2>4, <2>7 DEF DataTypes
    <3>2. SameRole(c, a) /\ Token(c, a) /\ cacheState[c][a] \in Held
      BY <1>3, <2>2, <3>1 DEF SameRole, Exclusive, Token, Copy, Held
    <3>3. ~Served(c, a)
      BY <1>3, <3>1, ServedClass, Classes DEF Class
    <3>4. QED  BY <1>3, <1>4, <1>6, <2>2, <2>5, <2>7, <3>1, <3>2, <3>3 DEF LineServed
  <2>8. QED  BY <2>3, <2>6, <2>7
<1>11. QED  BY <1>1, <1>7, <1>8, <1>9, <1>10 DEF ResponseStep

LEMMA CacheResponseLines ==
  ASSUME TypeOK, MissInv, MissInv', CoherenceInv, NEW c \in Cache, NEW n \in Node, CacheResponse(c, n)
  PROVE  BacksInv' /\ CoherentLines'
<1>m. PICK m : m = Head(responseNet[n][c])  OBVIOUS
<1>a. PICK a : a = m.addr  OBVIOUS
<1>0. BacksInv' /\ LineServed(c, n, m, a)  BY <1>m, <1>a, ResponseRoles
<1>1. /\ BacksInv'
      /\ a \in Addr /\ m \in ResponseMsg /\ BackSame
      /\ RespTake(n, c, m) /\ ReqSame /\ FwdSame /\ MemSame
      /\ \A x \in Cache, y \in Addr : ~(x = c /\ y = a) => cacheState'[x][y] = cacheState[x][y]
      /\ SameRole(c, a)
      /\ LoadData(c, n) \/ StoreData(c, n) => AtData(c, a, n, m)
      /\ StoreDone(c, n) =>
           /\ Token(c, a) /\ ~Served(c, a)' /\ cacheState'[c][a] = "M"
           /\ \/ AtData(c, a, n, m) /\ entryBlk'[c][a] = Merge[m.data]
              \/ cacheState[c][a] \in Held /\ entryBlk'[c][a] = Merge[entryBlk[c][a]]
  BY <1>0 DEF LineServed
<1>2. RoleInv(a) /\ ValueInv(a)  BY <1>1 DEF CoherenceInv, CoherentLines
<1>3. ResponseStep(c, n) /\ UNCHANGED dirVars  BY DEF CacheResponse
<1>4. ASSUME NEW q \in Cache, q # c
      PROVE  /\ SameRole(q, a) /\ (Served(q, a)' <=> Served(q, a))
             /\ \A x, k : AtData(q, a, x, k)' <=> AtData(q, a, x, k)
  <2>1. \A x, k : AtData(q, a, x, k)' <=> AtData(q, a, x, k)
    BY <1>1, <1>4 DEF RespTake
  <2>2. QED  BY <1>1, <1>4, <2>1, SameRoleFrom DEF ReqSame, MemSame, Served
<1>5. SameFwds(a) /\ SameInvs(a) /\ SameBack(a)
  BY <1>1, SameFwdsFrom DEF FwdSame, SameInvs, BackSame, SameBack
<1>6. RoleInv(a)'
  BY <1>1, <1>2, <1>3, <1>4, <1>5, RolesKept DEF SameRoles, dirVars
<1>7. \A x, k : AtData(c, a, x, k)' => AtData(c, a, x, k)
  BY <1>1 DEF RespTake
<1>8. /\ \A x \in Cache, y \in Addr : ~(x = c /\ y = a) => entryBlk'[x][y] = entryBlk[x][y]
      /\ LoadData(c, n) \/ StoreData(c, n) => entryBlk'[c][a] = m.data /\ lastWritten' = lastWritten
      /\ Inv_Ack(c, n) => UNCHANGED <<cacheState, entryBlk, lastWritten>>
      /\ StoreDone(c, n) => lastWritten'[a] = Merge[lastWritten[a]]
      /\ \A y \in Addr : y # a => lastWritten'[y] = lastWritten[y]
  <2>1. entryBlk \in [Cache -> [Addr -> DataBlk]] /\ lastWritten \in [Addr -> Value]
    BY DEF TypeOK, CacheTypeOK, SeqTypeOK
  <2>2. CASE LoadData(c, n)
    <3>1. writeDataToCache(c, a, m.data) /\ lastWritten' = lastWritten
      BY <1>m, <1>a, <2>2 DEF LoadData, readCallback
    <3>2. ~StoreDone(c, n) /\ ~Inv_Ack(c, n)
      BY <2>2 DEF LoadData, StoreDone, Inv_Ack, Responded, StoreMiss
    <3>3. QED  BY <1>1, <2>1, <3>1, <3>2 DEF writeDataToCache
  <2>3. CASE StoreData(c, n)
    <3>1. writeDataToCache(c, a, m.data) /\ lastWritten' = lastWritten
      BY <1>m, <1>a, <2>3 DEF StoreData, seqVars
    <3>2. ~StoreDone(c, n) /\ ~Inv_Ack(c, n)
      BY <2>3 DEF StoreData, StoreDone, Inv_Ack, Responded
    <3>3. QED  BY <1>1, <2>1, <3>1, <3>2 DEF writeDataToCache
  <2>4. CASE Inv_Ack(c, n)
    <3>1. UNCHANGED <<cacheState, entryBlk, lastWritten>>
      BY <2>4 DEF Inv_Ack, seqVars
    <3>2. ~StoreDone(c, n) /\ ~LoadData(c, n) /\ ~StoreData(c, n)
      BY <2>4 DEF LoadData, StoreData, StoreDone, Inv_Ack, Responded
    <3>3. QED  BY <3>1, <3>2
  <2>5. CASE StoreDone(c, n)
    <3>1. \E v : writeDataToCache(c, a, v)
      BY <1>m, <1>a, <2>5 DEF StoreDone
    <3>2. lastWritten' = [lastWritten EXCEPT ![a] = Merge[@]]
      BY <1>m, <1>a, <2>5 DEF StoreDone, writeCallback
    <3>3. ~LoadData(c, n) /\ ~StoreData(c, n) /\ ~Inv_Ack(c, n)
      BY <2>5 DEF LoadData, StoreData, StoreDone, Inv_Ack, Responded
    <3>4. QED  BY <1>1, <2>1, <3>1, <3>2, <3>3 DEF writeDataToCache
  <2>6. QED  BY <1>3, <2>2, <2>3, <2>4, <2>5 DEF ResponseStep
<1>9. ValueInv(a)'
  <2>1. CASE LoadData(c, n) \/ StoreData(c, n)
    <3>1. entryBlk'[c][a] = lastWritten[a] /\ lastWritten' = lastWritten
      BY <1>1, <1>2, <1>8, <2>1 DEF ValueInv
    <3>2. QED  BY <1>1, <1>2, <1>3, <1>4, <1>7, <1>8, <3>1 DEF ValueInv, MemSame, BackSame, dirVars
  <2>2. CASE Inv_Ack(c, n)
    BY <1>1, <1>2, <1>3, <1>4, <1>7, <1>8, <2>2 DEF ValueInv, MemSame, BackSame, dirVars
  <2>3. CASE StoreDone(c, n)
    <3>1. \A q \in Cache : ~InvTo(q, a, c)
      <4>1. Class(c, a)' = "none"  BY <1>1, <2>3 DEF Class, ClassOf
      <4>2. \A x, k : ~AtData(c, a, x, k)'  BY <1>1, <2>3 DEF Served
      <4>3. Due(c, a)' = {}
        BY <1>1, <4>1, <4>2 DEF MissInv, Lines, LineInv, DueInv
      <4>4. QED  BY <1>1, <4>3 DEF Due, FwdSame
    <3>2. /\ \A q \in Cache : q # c => cacheState[q][a] \notin Held /\ ~Served(q, a)
          /\ \A q \in Cache : \A k : ~AtBack(q, a, k)
          /\ dirState[a] \notin Clean
      BY <1>1, <1>2, <2>3, <3>1, ServedClass, StoreAlone
    <3>3. entryBlk'[c][a] = Merge[lastWritten[a]]
      BY <1>1, <1>2, <2>3 DEF ValueInv
    <3>4. QED  BY <1>1, <1>2, <1>3, <1>4, <1>8, <2>3, <3>2, <3>3, StoreWritten DEF BackSame, dirVars
  <2>4. QED  BY <1>3, <2>1, <2>2, <2>3 DEF ResponseStep
<1>10. Elsewhere(a)
  <2>1. \A x \in Cache, y \in Addr : y # a => SameMessages(x, y)
    BY <1>1, <1>a, Places, MovesElsewhere
  <2>2. CacheLineOnly(c, a)
    BY <1>1, <1>3, <1>8 DEF CacheLineOnly, SameCacheLine, dirVars
  <2>3. QED  BY <1>1, <2>1, <2>2, StepElsewhere
<1>11. QED  BY <1>1, <1>6, <1>9, <1>10, OtherLines DEF CoherenceInv

-----------------------------------------------------------------------------
(* The directory's transitions.                                            *)

LEMMA NotOwned ==
  ASSUME NEW a \in Addr, RoleInv(a), dirState[a] \in {"I", "S", "IS_M", "MS_M"}
  PROVE  ~Owned(a)
BY DEF Owned, RoleInv, ForwardInv

\* No copy of a line without owner is being invalidated.
LEMMA NoneInvalidated ==
  ASSUME TypeOK, MissInv, NEW a \in Addr, RoleInv(a), dirState[a] \in {"I", "S"}
  PROVE  \A q, p \in Cache : ~InvTo(q, a, p)
BY InvToken, TokenOwned, NotOwned

\* The directory takes the request m of c: what part c plays then depends on
\* whether the request has been served.
LEMMA RequestRoles ==
  ASSUME MissInv, NEW c \in Cache, NEW a \in Addr, NEW m, AtReq(c, a, m), ReqTake(c, m),
         cacheState' = cacheState
  PROVE  /\ Asking(c, a) /\ ~Asking(c, a)' /\ ~Served(c, a)
         /\ ~Exclusive(c, a) /\ ~Token(c, a)
         /\ m.type \in GetTypes /\ m.addr = a
         /\ m.type = "GETS" => (Exclusive(c, a)' <=> Exclusive(c, a)) /\ (Token(c, a)' <=> Token(c, a))
         /\ m.type = "GETS" /\ Served(c, a)' => Copy(c, a)'
         /\ m.type = "GETM" => Exclusive(c, a)'
         /\ m.type = "GETM" /\ Served(c, a)' => Token(c, a)' /\ ~Copy(c, a)'
         /\ ~Served(c, a)' => (Token(c, a)' <=> Token(c, a)) /\ (Copy(c, a)' <=> Copy(c, a))
<1>1. At(c, a, "request", c, m)  BY DEF At
<1>2. /\ OnlyPlace(c, a, "request", c, m) /\ Class(c, a) \in {"load", "store"}
      /\ m.type = "GETS" <=> Class(c, a) = "load"
  BY <1>1, FoundPlace DEF MissInv, Lines, LineInv
<1>3. /\ \A k : AtReq(c, a, k) => k = m
      /\ \A k : ~AtMem(c, a, k)
      /\ \A n, k : ~AtData(c, a, n, k)
  BY <1>2, OnlyKind
<1>4. Asking(c, a) /\ ~Asking(c, a)' /\ ~Served(c, a)
  BY <1>3 DEF Asking, Served, ReqTake
<1>5. m.type \in GetTypes /\ m.addr = a  BY DEF AtReq
<1>6. /\ m.type = "GETS" => cacheState[c][a] = "IS_D"
      /\ m.type = "GETM" => cacheState[c][a] \in {"IM_AD", "SM_AD"}
  BY <1>2, Classes DEF Class
<1>7. CASE m.type = "GETS"
  BY <1>4, <1>5, <1>6, <1>7 DEF Exclusive, Token, Copy
<1>8. CASE m.type = "GETM"
  BY <1>4, <1>5, <1>6, <1>8 DEF Exclusive, Token, Copy
<1>9. QED  BY <1>5, <1>7, <1>8 DEF GetTypes

\* The other caches play the same part.
LEMMA RequestOthers ==
  ASSUME NEW c \in Cache, NEW a \in Addr, NEW m, AtReq(c, a, m), ReqTake(c, m),
         cacheState' = cacheState,
         MemSame \/ \E r : MemPut(c, a, r), RespSame \/ \E d, data : RespPut(d, c, data)
  PROVE  RolesExcept(a, c)
<1>1. SUFFICES ASSUME NEW q \in Cache, q # c PROVE SameRole(q, a)
  BY DEF RolesExcept
<1>2. \A k : AtReq(q, a, k)' <=> AtReq(q, a, k)  BY <1>1 DEF ReqTake
<1>3. \A k : AtMem(q, a, k)' <=> AtMem(q, a, k)  BY <1>1 DEF MemSame, MemPut
<1>4. \A n, k : AtData(q, a, n, k)' <=> AtData(q, a, n, k)  BY <1>1 DEF RespSame, RespPut
<1>5. QED  BY <1>2, <1>3, <1>4, SameRoleFrom

\* The directory gives out only the latest block.
LEMMA ValuesGiven ==
  ASSUME NEW a \in Addr, ValueInv(a), UNCHANGED <<cacheState, entryBlk, lastWritten>>,
         \A x \in Cache : \A k : AtMem(x, a, k)' => AtMem(x, a, k) \/ k.data = lastWritten[a],
         \A x \in Cache : \A n, k : AtData(x, a, n, k)' => AtData(x, a, n, k) \/ k.data = lastWritten[a],
         \A x \in Cache : \A k : AtBack(x, a, k)' => AtBack(x, a, k),
         dirState'[a] \in Clean => dirBlk'[a] = lastWritten[a]
  PROVE  ValueInv(a)'
BY DEF ValueInv

\* A GETS or GETM that finds the line in I.
LEMMA GetILines ==
  ASSUME TypeOK, DirectoryEntries, Running, MissInv, CoherenceInv, NEW d \in Dir, NEW c \in Cache,
         GETS_I(d, c) \/ GETM_I(d, c), UNCHANGED <<cacheVars, lastWritten>>
  PROVE  BacksInv' /\ CoherentLines'
<1>m. PICK m : m = Head(requestNet[c][d])  OBVIOUS
<1>a. PICK a : a = m.addr  OBVIOUS
<1>1. /\ Requested(d, c, GetTypes, {"I"}) /\ popRequest(d, c)
      /\ GETS_I(d, c) => Requested(d, c, {"GETS"}, {"I"})
      /\ GETM_I(d, c) => Requested(d, c, {"GETM"}, {"I"})
      /\ queueMemory(a, "MEMORY_READ", c, dirBlk[a])
      /\ UNCHANGED <<forwardNet, responseNet, dirBlk, cacheState, entryBlk, lastWritten>>
      /\ GETS_I(d, c) => setState(a, "IS_M", owner[a], sharers[a] \cup {c})
      /\ GETM_I(d, c) => setState(a, "IM_M", {c}, sharers[a])
  BY <1>m, <1>a DEF GETS_I, GETM_I, Requested, GetTypes, cacheVars, addRequestorToSharers
<1>2. /\ a \in Addr /\ AtReq(c, a, m) /\ ReqTake(c, m) /\ dirState[a] \in {"I"}
      /\ OnlyPlace(c, a, "request", c, m)
  BY <1>m, <1>a, <1>1, GetDelta
<1>3. /\ GETS_I(d, c) => m.type \in {"GETS"}
      /\ GETM_I(d, c) => m.type \in {"GETM"}
  <2>1. {"GETS"} \in SUBSET GetTypes /\ {"GETM"} \in SUBSET GetTypes  BY DEF GetTypes
  <2>2. ASSUME GETS_I(d, c) PROVE m.type \in {"GETS"}
    BY <1>m, <1>1, <2>1, <2>2, GetDelta
  <2>3. ASSUME GETM_I(d, c) PROVE m.type \in {"GETM"}
    BY <1>m, <1>1, <2>1, <2>3, GetDelta
  <2>4. QED  BY <2>2, <2>3
<1>4. PICK r : r = [type |-> "MEMORY_READ", addr |-> a, requestor |-> c, data |-> dirBlk[a]]
  OBVIOUS
<1>5. MemPut(c, a, r)  BY <1>1, <1>2, <1>4, MemoryPut
<1>6. FwdSame /\ RespSame /\ BacksInv' /\ BackSame
  BY <1>1, ForwardsSame, ResponsesSame, BacksSame DEF MissInv, ChannelInv, CoherenceInv
<1>7. RoleInv(a) /\ ValueInv(a)  BY <1>2 DEF CoherenceInv, CoherentLines
<1>8. SameFwds(a) /\ SameInvs(a) /\ SameBack(a)
  BY <1>2, <1>6, SameFwdsFrom DEF FwdSame, SameInvs, BackSame, SameBack
<1>9. RolesExcept(a, c)
  BY <1>1, <1>2, <1>5, <1>6, RequestOthers
<1>10. Served(c, a)'
  BY <1>2, <1>5 DEF MemPut, Served
<1>11. \A q, p \in Cache : ~InvTo(q, a, p)
  BY <1>2, <1>7, NoneInvalidated
<1>12. RoleInv(a)' /\ (dirState'[a] \in {"IS_M", "IM_M"})
       /\ \A y \in Addr : y # a => SameDir(y)
  <2>1. CASE GETS_I(d, c)
    <3>1. setState(a, "IS_M", owner[a], sharers[a] \cup {c}) /\ m.type = "GETS"
      BY <1>1, <1>3, <2>1
    <3>2. \A x \in Addr :
            /\ dirState'[x] = IF x = a THEN "IS_M" ELSE dirState[x]
            /\ owner'[x] = IF x = a THEN owner[a] ELSE owner[x]
            /\ sharers'[x] = IF x = a THEN sharers[a] \cup {c} ELSE sharers[x]
      BY <1>2, <3>1, DirStateSet
    <3>3. /\ Exclusive(c, a)' <=> Exclusive(c, a)
          /\ Token(c, a)' <=> Token(c, a)
          /\ Copy(c, a)'
      BY <1>1, <1>2, <1>10, <3>1, RequestRoles
    <3>4. RoleInv(a)'
      BY <1>2, <1>7, <1>8, <1>9, <3>2, <3>3, CopyGiven
    <3>5. QED  BY <1>2, <3>2, <3>4 DEF SameDir
  <2>2. CASE GETM_I(d, c)
    <3>1. setState(a, "IM_M", {c}, sharers[a]) /\ m.type = "GETM" /\ sharers[a] = {}
      BY <1>1, <1>2, <1>3, <2>2 DEF DirectoryEntries, Running
    <3>2. \A x \in Addr :
            /\ dirState'[x] = IF x = a THEN "IM_M" ELSE dirState[x]
            /\ owner'[x] = IF x = a THEN {c} ELSE owner[x]
            /\ sharers'[x] = IF x = a THEN sharers[a] ELSE sharers[x]
      BY <1>2, <3>1, DirStateSet
    <3>3. Exclusive(c, a)' /\ Token(c, a)' /\ ~Copy(c, a)'
      BY <1>1, <1>2, <1>10, <3>1, RequestRoles
    <3>4. \A q, p \in Cache : InvTo(q, a, p)' <=> p = c /\ q \in sharers[a] /\ q # c
      BY <1>8, <1>11, <3>1 DEF SameInvs
    <3>5. RoleInv(a)'
      BY <1>2, <1>7, <1>8, <1>9, <1>11, <3>1, <3>2, <3>3, <3>4, OwnerMade
    <3>6. QED  BY <1>2, <3>2, <3>5 DEF SameDir
  <2>3. QED  BY <2>1, <2>2
<1>13. ValueInv(a)'
  <2>1. dirBlk[a] = lastWritten[a]  BY <1>2, <1>7 DEF ValueInv, Clean
  <2>2. r.data = lastWritten[a]  BY <1>4, <2>1
  <2>3. QED
    BY <1>1, <1>2, <1>5, <1>6, <1>7, <2>1, <2>2, ValuesGiven DEF MemPut, RespSame, BackSame
<1>14. Elsewhere(a)
  <2>1. \A x \in Cache, y \in Addr : y # a => SameMessages(x, y)
    BY <1>2, <1>5, <1>6, <1>a, MovesElsewhere
  <2>2. DirLineOnly(a)  BY <1>1, <1>12 DEF DirLineOnly
  <2>3. QED  BY <1>2, <2>1, <2>2, StepElsewhere
<1>15. QED  BY <1>2, <1>6, <1>12, <1>13, <1>14, OtherLines DEF CoherenceInv

\* In S: the data, with the invalidations if it is a GETM.
LEMMA GetSLines ==
  ASSUME TypeOK, MissInv, CoherenceInv, NEW d \in Dir, NEW c \in Cache,
         GETS_S(d, c) \/ GETM_S(d, c), UNCHANGED <<cacheVars, lastWritten>>
  PROVE  BacksInv' /\ CoherentLines'
<1>m. PICK m : m = Head(requestNet[c][d])  OBVIOUS
<1>a. PICK a : a = m.addr  OBVIOUS
<1>1. PICK dsts : dsts = IF m.type = "GETM" THEN sharers[m.addr] \ {c} ELSE {}  OBVIOUS
<1>2. PICK data : data = [type |-> "DATA_FROM_DIR", addr |-> m.addr, data |-> dirBlk[m.addr],
                          ackCount |-> 0 - Cardinality(dsts)]
  OBVIOUS
<1>3. /\ a \in Addr /\ AtReq(c, a, m) /\ dsts \in SUBSET Cache /\ DirOf[a] = d
      /\ dirState[a] = "S"
      /\ GETS_S(d, c) => m.type = "GETS"
      /\ GETM_S(d, c) => m.type = "GETM"
      /\ ReqTake(c, m) /\ MemSame /\ FwdPut(dsts, InvMsg(a, c))
      /\ RespPut(d, c, data)
  BY <1>m, <1>a, <1>1, <1>2, GetSDelta
<1>4. /\ data.type = "DATA_FROM_DIR" /\ data.addr = a /\ data.data = dirBlk[a]
      /\ data.type \in DataTypes /\ data.type # "DATA"
  BY <1>2, <1>a DEF DataTypes
<1>5. /\ UNCHANGED <<dirBlk, cacheState, entryBlk, lastWritten>>
      /\ GETS_S(d, c) => setState(a, "S", owner[a], sharers[a] \cup {c})
      /\ GETM_S(d, c) => setState(a, "M", {c}, {})
      /\ \E n \in Int : sendData(d, c, a, dirBlk[a], n)
  <2>1. AckCount(a, c) \in Int
    <3>1. sharers[a] \ {c} \in SUBSET Cache /\ AckCount(a, c) = 0 - Cardinality(sharers[a] \ {c})
      BY <1>3, AckCountIs
    <3>2. IsFiniteSet(sharers[a] \ {c})  BY <3>1, NodesAssumption, FS_Subset
    <3>3. Cardinality(sharers[a] \ {c}) \in Nat  BY <3>2, FS_CardinalityType
    <3>4. QED  BY <3>1, <3>3
  <2>2. QED
    BY <1>m, <1>a, <2>1 DEF GETS_S, GETM_S, cacheVars, addRequestorToSharers, clearSharers
<1>6. BacksInv' /\ BackSame
  <2>1. PICK n \in Int : sendData(d, c, a, dirBlk[a], n)  BY <1>5
  <2>2. dirBlk[a] \in DataBlk  BY <1>3 DEF TypeOK, DirTypeOK
  <2>3. [type |-> "DATA_FROM_DIR", addr |-> a, data |-> dirBlk[a], ackCount |-> n] \in ResponseMsg
    BY <1>3, <2>2 DEF ResponseMsg
  <2>4. d \in Node  BY Places
  <2>5. QED  BY <2>1, <2>3, <2>4, BacksOnSend DEF sendData, CoherenceInv
<1>7. RoleInv(a) /\ ValueInv(a)  BY <1>3 DEF CoherenceInv, CoherentLines
<1>8. SameFwds(a) /\ SameBack(a)
  <2>1. \A x \in Cache : \A q, k : AtFwd(x, a, q, k)' <=> AtFwd(x, a, q, k)
    <3>1. InvMsg(a, c).type \notin GetTypes  BY Addressed DEF GetTypes
    <3>2. QED  BY <1>3, <3>1 DEF FwdPut
  <2>2. QED  BY <1>3, <1>6, <2>1, SameFwdsFrom DEF BackSame, SameBack
<1>9. RolesExcept(a, c)
  BY <1>3, <1>5, RequestOthers
<1>10. Served(c, a)'
  BY <1>3, <1>4 DEF RespPut, Served
<1>11. \A q, p \in Cache : ~InvTo(q, a, p)
  BY <1>3, <1>7, NoneInvalidated
<1>12. \A q, p \in Cache : InvTo(q, a, p)' <=> q \in dsts /\ p = c
  BY <1>3, <1>11 DEF FwdPut, InvMsg
<1>13. RoleInv(a)' /\ (\A y \in Addr : y # a => SameDir(y))
  <2>1. CASE GETS_S(d, c)
    <3>1. setState(a, "S", owner[a], sharers[a] \cup {c}) /\ m.type = "GETS"
      BY <1>3, <1>5, <2>1
    <3>2. \A x \in Addr :
            /\ dirState'[x] = IF x = a THEN "S" ELSE dirState[x]
            /\ owner'[x] = IF x = a THEN owner[a] ELSE owner[x]
            /\ sharers'[x] = IF x = a THEN sharers[a] \cup {c} ELSE sharers[x]
      BY <1>3, <3>1, DirStateSet
    <3>3. /\ Exclusive(c, a)' <=> Exclusive(c, a)
          /\ Token(c, a)' <=> Token(c, a)
          /\ Copy(c, a)'
      BY <1>3, <1>5, <1>10, <3>1, RequestRoles
    <3>4. SameInvs(a)
      BY <1>1, <1>11, <1>12, <3>1 DEF SameInvs
    <3>5. RoleInv(a)'
      BY <1>3, <1>7, <1>8, <1>9, <3>2, <3>3, <3>4, CopyGiven
    <3>6. QED  BY <1>3, <3>2, <3>5 DEF SameDir
  <2>2. CASE GETM_S(d, c)
    <3>1. setState(a, "M", {c}, {}) /\ m.type = "GETM" /\ dsts = sharers[a] \ {c}
      BY <1>1, <1>a, <1>3, <1>5, <2>2
    <3>2. \A x \in Addr :
            /\ dirState'[x] = IF x = a THEN "M" ELSE dirState[x]
            /\ owner'[x] = IF x = a THEN {c} ELSE owner[x]
            /\ sharers'[x] = IF x = a THEN {} ELSE sharers[x]
      BY <1>3, <3>1, DirStateSet
    <3>3. Exclusive(c, a)' /\ Token(c, a)' /\ ~Copy(c, a)'
      BY <1>3, <1>5, <1>10, <3>1, RequestRoles
    <3>4. \A q, p \in Cache : InvTo(q, a, p)' <=> p = c /\ q \in sharers[a] /\ q # c
      BY <1>12, <3>1
    <3>5. RoleInv(a)'
      BY <1>3, <1>7, <1>8, <1>9, <1>11, <3>2, <3>3, <3>4, OwnerMade
    <3>6. QED  BY <1>3, <3>2, <3>5 DEF SameDir
  <2>3. QED  BY <2>1, <2>2
<1>14. ValueInv(a)'
  <2>1. dirBlk[a] = lastWritten[a]  BY <1>3, <1>7 DEF ValueInv, Clean
  <2>2. data.data = lastWritten[a]  BY <1>4, <2>1
  <2>3. QED
    BY <1>3, <1>5, <1>6, <1>7, <2>1, <2>2, ValuesGiven DEF RespPut, MemSame, BackSame
<1>15. Elsewhere(a)
  <2>1. /\ InvMsg(a, c).addr = a /\ d \in Node  BY Addressed, Places
  <2>2. \A x \in Cache, y \in Addr : y # a => SameMessages(x, y)
    <3>1. \E q \in Cache : \E k : k.addr = a /\ ReqTake(q, k)  BY <1>3, <1>a
    <3>2. \E s, k : k.addr = a /\ FwdPut(s, k)  BY <1>3, <2>1
    <3>3. \E n \in Node, q \in Cache : \E k : k.addr = a /\ RespPut(n, q, k)  BY <1>3, <1>4, <2>1
    <3>4. QED  BY <1>3, <1>6, <3>1, <3>2, <3>3, MovesElsewhere
  <2>3. DirLineOnly(a)  BY <1>5, <1>13 DEF DirLineOnly
  <2>4. QED  BY <1>3, <2>2, <2>3, StepElsewhere
<1>16. QED  BY <1>3, <1>6, <1>13, <1>14, <1>15, OtherLines DEF CoherenceInv

\* In M: the request goes to the owner.
LEMMA GetMLines ==
  ASSUME TypeOK, DirectoryEntries, Running, MissInv, CoherenceInv, NEW d \in Dir, NEW c \in Cache,
         GETS_M(d, c) \/ GETM_M(d, c), UNCHANGED <<cacheVars, lastWritten>>
  PROVE  BacksInv' /\ CoherentLines'
<1>m. PICK m : m = Head(requestNet[c][d])  OBVIOUS
<1>a. PICK a : a = m.addr  OBVIOUS
<1>1. /\ a \in Addr /\ AtReq(c, a, m) /\ dirState[a] = "M"
      /\ GETS_M(d, c) => m.type = "GETS"
      /\ GETM_M(d, c) => m.type = "GETM"
      /\ ReqTake(c, m) /\ MemSame /\ RespSame
      /\ \E o \in Cache : /\ owner[a] = {o}
                          /\ FwdPut({o}, [type |-> m.type, addr |-> a, requestor |-> c])
  <2>1. m.addr \in Addr /\ AtReq(c, m.addr, m) /\ ReqTake(c, m) /\ MemSame /\ RespSame
    BY <1>m, GetMDelta
  <2>2. \E o \in Cache : /\ owner[m.addr] = {o}
                       /\ FwdPut({o}, [type |-> m.type, addr |-> m.addr, requestor |-> c])
    BY <1>m, GetMDelta
  <2>3. /\ GETS_M(d, c) => m.type = "GETS"
        /\ GETM_M(d, c) => m.type = "GETM"
    BY <1>m, GetMDelta
  <2>4. dirState[m.addr] = "M"
    BY <1>m DEF GETS_M, GETM_M, Requested
  <2>5. QED  BY <1>a, <2>1, <2>2, <2>3, <2>4
<1>f. PICK f : f = [type |-> m.type, addr |-> a, requestor |-> c]  OBVIOUS
<1>2. PICK o \in Cache : owner[a] = {o} /\ FwdPut({o}, f)
  BY <1>1, <1>f
<1>3. f.type = m.type /\ f.addr = a /\ f.requestor = c /\ sharers[a] = {} /\ m.type \in GetTypes
  BY <1>f, <1>1 DEF DirectoryEntries, Running, AtReq
<1>4. /\ UNCHANGED <<dirBlk, cacheState, entryBlk, lastWritten, responseNet>>
      /\ GETS_M(d, c) => setState(a, "MS_D", {}, (sharers[a] \cup {c}) \cup (sharers[a] \cup owner[a]))
      /\ GETM_M(d, c) => setState(a, "M", {c}, sharers[a])
  BY <1>m, <1>a DEF GETS_M, GETM_M, cacheVars, addRequestorToSharers, addOwnertoSharers, clearOwner
<1>5. BacksInv' /\ BackSame  BY <1>4, BacksSame DEF CoherenceInv
<1>6. RoleInv(a) /\ ValueInv(a)  BY <1>1 DEF CoherenceInv, CoherentLines
<1>7. SameInvs(a) /\ FwdMore(a, o, m.type, c)
  <2>1. \A q, p \in Cache : InvTo(q, a, p)' <=> InvTo(q, a, p)
    <3>1. f.type # "INV"  BY <1>3 DEF GetTypes
    <3>2. \A p : f # InvMsg(a, p)  BY <3>1, Addressed
    <3>3. QED  BY <1>1, <1>2, <3>2 DEF FwdPut
  <2>2. \A q, r \in Cache : \A t : Fwd(q, a, t, r)' <=> Fwd(q, a, t, r) \/ (q = o /\ t = m.type /\ r = c)
    <3>1. SUFFICES ASSUME NEW q \in Cache, NEW r \in Cache, NEW t
                   PROVE Fwd(q, a, t, r)' <=> Fwd(q, a, t, r) \/ (q = o /\ t = m.type /\ r = c)
      OBVIOUS
    <3>2. \A k : AtFwd(r, a, q, k)' <=> AtFwd(r, a, q, k) \/ (q = o /\ k = f /\ r = c)
      BY <1>1, <1>2, <1>3 DEF FwdPut
    <3>3. QED  BY <1>3, <3>2 DEF Fwd
  <2>3. QED  BY <2>1, <2>2 DEF SameInvs, FwdMore
<1>8. SameBack(a)  BY <1>1, <1>5 DEF BackSame, SameBack
<1>9. RolesExcept(a, c)  BY <1>1, <1>4, RequestOthers
<1>10. ~Served(c, a)'
  <2>1. ~Served(c, a)  BY <1>1, <1>4, RequestRoles
  <2>2. QED  BY <1>1, <2>1 DEF Served, MemSame, RespSame
<1>11. RoleInv(a)' /\ (\A y \in Addr : y # a => SameDir(y)) /\ dirState'[a] \notin Clean
  <2>1. CASE GETS_M(d, c)
    <3>1. setState(a, "MS_D", {}, {o, c}) /\ m.type = "GETS"
      <4>1. (sharers[a] \cup {c}) \cup (sharers[a] \cup owner[a]) = {o, c}  BY <1>2, <1>3
      <4>2. QED  BY <1>1, <1>4, <2>1, <4>1
    <3>2. \A x \in Addr :
            /\ dirState'[x] = IF x = a THEN "MS_D" ELSE dirState[x]
            /\ owner'[x] = IF x = a THEN {} ELSE owner[x]
            /\ sharers'[x] = IF x = a THEN {o, c} ELSE sharers[x]
      BY <1>1, <3>1, DirStateSet
    <3>3. SameRole(c, a)
      BY <1>1, <1>4, <1>10, <3>1, RequestRoles DEF SameRole
    <3>4. SameRoles(a)  BY <1>9, <3>3 DEF RolesExcept, SameRoles
    <3>5. RoleInv(a)'
      BY <1>1, <1>2, <1>6, <1>7, <1>8, <3>1, <3>2, <3>4, ShareAsked
    <3>6. QED  BY <1>1, <3>2, <3>5 DEF SameDir, Clean
  <2>2. CASE GETM_M(d, c)
    <3>1. setState(a, "M", {c}, sharers[a]) /\ m.type = "GETM"
      BY <1>1, <1>4, <2>2
    <3>2. \A x \in Addr :
            /\ dirState'[x] = IF x = a THEN "M" ELSE dirState[x]
            /\ owner'[x] = IF x = a THEN {c} ELSE owner[x]
            /\ sharers'[x] = IF x = a THEN sharers[a] ELSE sharers[x]
      BY <1>1, <3>1, DirStateSet
    <3>3. /\ ~Exclusive(c, a) /\ Exclusive(c, a)'
          /\ Token(c, a)' <=> Token(c, a)
          /\ Copy(c, a)' <=> Copy(c, a)
      BY <1>1, <1>4, <1>10, <3>1, RequestRoles
    <3>4. RoleInv(a)'
      BY <1>1, <1>2, <1>6, <1>7, <1>8, <1>9, <3>1, <3>2, <3>3, OwnerQueued
    <3>5. QED  BY <1>1, <3>2, <3>4 DEF SameDir, Clean
  <2>3. QED  BY <2>1, <2>2
<1>12. ValueInv(a)'
  BY <1>1, <1>4, <1>5, <1>6, <1>11, ValuesGiven DEF RespSame, MemSame, BackSame
<1>13. Elsewhere(a)
  <2>1. \A x \in Cache, y \in Addr : y # a => SameMessages(x, y)
    <3>1. \E q \in Cache : \E k : k.addr = a /\ ReqTake(q, k)  BY <1>1, <1>a
    <3>2. \E s, k : k.addr = a /\ FwdPut(s, k)  BY <1>2, <1>3
    <3>3. QED  BY <1>1, <1>5, <3>1, <3>2, MovesElsewhere
  <2>2. DirLineOnly(a)  BY <1>4, <1>11 DEF DirLineOnly
  <2>3. QED  BY <1>1, <2>1, <2>2, StepElsewhere
<1>14. QED  BY <1>1, <1>5, <1>11, <1>12, <1>13, OtherLines DEF CoherenceInv

\* A cache whose write-back has not been taken plays no part for the line.
LEMMA ReturnedRole ==
  ASSUME MissInv, NEW c \in Cache, NEW a \in Addr, PutInv(c, a), Returned(c, a)
  PROVE  ~Exclusive(c, a) /\ ~Copy(c, a) /\ \A q \in Cache : \A t : ~Fwd(q, a, t, c)
<1>1. \/ cacheState[c][a] \in {"I", "SI_A", "MI_A", "II_A"}
      \/ Asking(c, a) /\ cacheState[c][a] \in {"IS_D", "IM_AD"}
  BY AskedIs DEF PutInv, Asking
<1>2. Served(c, a) => ~Asking(c, a)  BY ServedClass
<1>3. ~Exclusive(c, a) /\ ~Copy(c, a)
  BY <1>1, <1>2 DEF Exclusive, Copy
<1>4. ASSUME NEW q \in Cache, NEW t, Fwd(q, a, t, c) PROVE FALSE
  <2>1. PICK m : AtFwd(c, a, q, m)  BY <1>4 DEF Fwd
  <2>2. At(c, a, "forward", q, m)  BY <2>1 DEF At
  <2>3. OnlyPlace(c, a, "forward", q, m) /\ Class(c, a) \in {"load", "store"}
    BY <2>2, FoundPlace DEF MissInv, Lines, LineInv
  <2>4. ~Asking(c, a)  BY <2>2, <2>3, OnlyKind DEF Asking
  <2>5. cacheState[c][a] \in {"I", "SI_A", "MI_A", "II_A"}  BY <1>1, <2>4
  <2>6. QED  BY <2>3, <2>5 DEF Class, ClassOf
<1>5. QED  BY <1>3, <1>4

\* The write-back of a line that has not been written.
LEMMA PutLines ==
  ASSUME TypeOK, MissInv, AllCovered, CoherenceInv, NEW d \in Dir, NEW c \in Cache,
         PutStep(d, c), ~Fitting, UNCHANGED <<cacheVars, lastWritten>>
  PROVE  BacksInv' /\ CoherentLines'
<1>m. PICK m : m = Head(requestNet[c][d])  OBVIOUS
<1>a. PICK a : a = m.addr  OBVIOUS
<1>1. /\ AtHead(requestNet, requestHead, c, d) /\ m \in RequestMsg /\ a \in Addr
      /\ ReqSame /\ FwdSame /\ RespSame /\ MemSame /\ responseNet' = responseNet
  BY <1>m, <1>a, PutDelta
<1>2. CleanPut(d, c) /\ m.type = "PUTS"
  BY <1>m, <1>1, PutIsClean DEF CoherenceInv
<1>3. PutInv(c, a) /\ Returned(c, a)
  <2>1. m.type \in PutTypes  BY <1>2 DEF PutTypes
  <2>2. QED  BY <1>m, <1>a, <1>1, <2>1, RequestFirst DEF AllCovered, Covered
<1>4. /\ UNCHANGED <<dirBlk, cacheState, entryBlk, lastWritten>>
      /\ \E s, shr : /\ setState(a, s, owner[a], shr)
                     /\ shr \in {sharers[a], sharers[a] \ {c}}
                     /\ s = dirState[a] \/ (dirState[a] = "S" /\ s = "I")
  <2>1. CASE PutDropsSharer(d, c)
    BY <1>m, <1>a, <2>1 DEF PutDropsSharer, removeRequestSharer, cacheVars
  <2>2. CASE PUTS_Last_S(d, c)
    BY <1>m, <1>a, <2>2 DEF PUTS_Last_S, Requested, removeRequestSharer, cacheVars
  <2>3. CASE PUTS_Stale(d, c)
    BY <1>m, <1>a, <2>3 DEF PUTS_Stale, cacheVars
  <2>4. CASE PUTS_Last_MS(d, c)
    BY <1>m, <1>a, <2>4 DEF PUTS_Last_MS, removeRequestSharer, cacheVars
  <2>5. QED  BY <1>2, <2>1, <2>2, <2>3, <2>4 DEF CleanPut
<1>5. PICK s, shr : /\ setState(a, s, owner[a], shr)
                    /\ shr \in {sharers[a], sharers[a] \ {c}}
                    /\ s = dirState[a] \/ (dirState[a] = "S" /\ s = "I")
  BY <1>4
<1>6. \A x \in Addr : /\ dirState'[x] = IF x = a THEN s ELSE dirState[x]
                      /\ owner'[x] = IF x = a THEN owner[a] ELSE owner[x]
                      /\ sharers'[x] = IF x = a THEN shr ELSE sharers[x]
  BY <1>1, <1>5, DirStateSet
<1>7. BacksInv' /\ BackSame  BY <1>1, BacksSame DEF CoherenceInv
<1>8. RoleInv(a) /\ ValueInv(a)  BY <1>1 DEF CoherenceInv, CoherentLines
<1>9. SameRoles(a)
  <2>1. SUFFICES ASSUME NEW q \in Cache PROVE SameRole(q, a)  BY DEF SameRoles
  <2>2. QED  BY <1>1, <1>4, SameRoleFrom DEF ReqSame, MemSame, RespSame
<1>10. SameFwds(a) /\ SameInvs(a) /\ SameBack(a)
  BY <1>1, <1>7, SameFwdsFrom DEF FwdSame, SameInvs, BackSame, SameBack
<1>11. ~Exclusive(c, a) /\ ~Copy(c, a) /\ \A q \in Cache : \A t : ~Fwd(q, a, t, c)
  BY <1>1, <1>3, ReturnedRole
<1>12. /\ owner'[a] = owner[a] /\ sharers'[a] \in {sharers[a], sharers[a] \ {c}}
       /\ dirState'[a] = dirState[a] \/ (dirState[a] = "S" /\ dirState'[a] = "I")
  BY <1>1, <1>5, <1>6
<1>13. RoleInv(a)'
  BY <1>1, <1>8, <1>9, <1>10, <1>11, <1>12, SharerDropped
<1>14. ValueInv(a)'
  <2>1. dirState'[a] \in Clean => dirBlk'[a] = lastWritten[a]
    BY <1>4, <1>8, <1>12 DEF ValueInv, Clean
  <2>2. QED
    BY <1>1, <1>4, <1>7, <1>8, <2>1, ValuesGiven DEF MemSame, RespSame, BackSame
<1>15. Elsewhere(a)
  <2>1. \A x \in Cache, y \in Addr : y # a => SameMessages(x, y)
    BY <1>1, <1>7, MovesElsewhere
  <2>2. DirLineOnly(a)  BY <1>4, <1>6 DEF DirLineOnly, SameDir
  <2>3. QED  BY <1>1, <2>1, <2>2, StepElsewhere
<1>16. QED  BY <1>1, <1>7, <1>13, <1>14, <1>15, OtherLines DEF CoherenceInv

LEMMA DirRequestLines ==
  ASSUME TypeOK, DirectoryEntries, MissInv, AllCovered, CoherenceInv, NEW d \in Dir, NEW c \in Cache,
         DirRequest(d, c)
  PROVE  BacksInv' /\ CoherentLines'
<1>1. Running /\ RequestStep(d, c) /\ UNCHANGED <<cacheVars, lastWritten>>
  BY DEF DirRequest, seqVars
<1>2. CASE GETS_I(d, c) \/ GETM_I(d, c)  BY <1>1, <1>2, GetILines
<1>3. CASE GETS_S(d, c) \/ GETM_S(d, c)  BY <1>1, <1>3, GetSLines
<1>4. CASE GETS_M(d, c) \/ GETM_M(d, c)  BY <1>1, <1>4, GetMLines
<1>5. CASE RequestStall(d, c)
  <2>1. UNCHANGED <<requestNet, forwardNet, responseNet, memQueue, cacheState, entryBlk,
                    dirState, owner, sharers, dirBlk, lastWritten>>
    BY <1>1, <1>5 DEF RequestStall, dirVars, cacheVars
  <2>2. QED  BY <2>1, QuietLines DEF CoherenceInv
<1>6. CASE PutStep(d, c)
  <2>1. ~Fitting  BY <1>6, RequestIsGet DEF CoherenceInv
  <2>2. QED  BY <1>1, <1>6, <2>1, PutLines
<1>7. QED  BY <1>1, <1>2, <1>3, <1>4, <1>5, <1>6 DEF RequestStep, PutStep

\* The block that the directory waits for is back.
LEMMA DirResponseLines ==
  ASSUME TypeOK, MissInv, CoherenceInv, NEW d \in Dir, NEW c \in Cache, DirResponse(d, c)
  PROVE  BacksInv' /\ CoherentLines'
<1>m. PICK m : m = Head(responseNet[c][d])  OBVIOUS
<1>a. PICK a : a = m.addr  OBVIOUS
<1>1. /\ DataStep(d, c) /\ responseNet[c][d] # <<>> /\ responseNet' = Pop(responseNet, c, d)
      /\ UNCHANGED <<requestNet, forwardNet, cacheState, entryBlk, lastWritten>>
  BY DEF DirResponse, DataStep, Data_Dropped, Data_MS_D, Data_MS_M, DataArrived, cacheVars, seqVars
<1>2. /\ a \in Addr /\ m \in ResponseMsg /\ AtBack(c, a, m)
      /\ BacksInv' /\ BackTake(c, m) /\ RespSame
  BY <1>m, <1>a, <1>1, BacksTaken DEF CoherenceInv
<1>3. RoleInv(a) /\ ValueInv(a)  BY <1>2 DEF CoherenceInv, CoherentLines
<1>4. dirState[a] = "MS_D"  BY <1>2, <1>3 DEF RoleInv, BackInv
<1>5. /\ queueMemory(a, "MEMORY_WB", c, m.data) /\ writeDataToDirectory(a, m.data)
      /\ setState(a, "MS_M", owner[a], sharers[a])
  BY <1>m, <1>a, <1>1, <1>4 DEF DataStep, Data_Dropped, Data_MS_D, Data_MS_M, DataArrived
<1>6. ReqSame /\ FwdSame /\ MemSame
  BY <1>1, <1>2, <1>5, RequestsSame, ForwardsSame, MemoryPut DEF MissInv, ChannelInv
<1>7. /\ \A x \in Addr : /\ dirState'[x] = IF x = a THEN "MS_M" ELSE dirState[x]
                         /\ owner'[x] = owner[x] /\ sharers'[x] = sharers[x]
      /\ \A x \in Addr : dirBlk'[x] = IF x = a THEN m.data ELSE dirBlk[x]
  <2>1. \A x \in Addr : /\ dirState'[x] = IF x = a THEN "MS_M" ELSE dirState[x]
                        /\ owner'[x] = IF x = a THEN owner[a] ELSE owner[x]
                        /\ sharers'[x] = IF x = a THEN sharers[a] ELSE sharers[x]
    BY <1>2, <1>5, DirStateSet
  <2>2. dirBlk \in [Addr -> DataBlk]  BY DEF TypeOK, DirTypeOK
  <2>3. QED  BY <1>2, <1>5, <2>1, <2>2 DEF writeDataToDirectory
<1>8. SameFwds(a) /\ SameInvs(a)
  BY <1>2, <1>6, SameFwdsFrom DEF FwdSame, SameInvs
<1>9. SameRoles(a)
  <2>1. SUFFICES ASSUME NEW q \in Cache PROVE SameRole(q, a)  BY DEF SameRoles
  <2>2. QED  BY <1>1, <1>2, <1>6, SameRoleFrom DEF ReqSame, MemSame, RespSame
<1>10. RoleInv(a)'
  <2>1. \A q \in Cache : \A k : AtBack(q, a, k)' <=> AtBack(q, a, k) /\ ~(q = c /\ k = m)
    BY <1>2 DEF BackTake
  <2>2. QED  BY <1>2, <1>3, <1>7, <1>8, <1>9, <2>1, BlockBack
<1>11. ValueInv(a)'
  <2>1. m.data = lastWritten[a]  BY <1>2, <1>3 DEF ValueInv
  <2>2. dirBlk'[a] = lastWritten[a]  BY <1>2, <1>7, <2>1
  <2>3. QED
    BY <1>1, <1>2, <1>3, <1>6, <2>2, ValuesGiven DEF MemSame, RespSame, BackTake
<1>12. Elsewhere(a)
  <2>1. \A x \in Cache, y \in Addr : y # a => SameMessages(x, y)
    <3>1. \E q \in Cache : \E k : k.addr = a /\ BackTake(q, k)  BY <1>2, <1>a
    <3>2. QED  BY <1>2, <1>6, <3>1, MovesElsewhere
  <2>2. DirLineOnly(a)  BY <1>1, <1>7 DEF DirLineOnly, SameDir
  <2>3. QED  BY <1>2, <2>1, <2>2, StepElsewhere
<1>13. QED  BY <1>2, <1>10, <1>11, <1>12, OtherLines DEF CoherenceInv

\* The memory's block is sent to the cache that asked for it.
LEMMA MemoryDataLines ==
  ASSUME TypeOK, MissInv, CoherenceInv, NEW d \in Dir, NEW m \in memQueue, Memory_Data(d, m),
         UNCHANGED <<cacheVars, lastWritten>>
  PROVE  BacksInv' /\ CoherentLines'
<1>a. PICK a : a = m.addr  OBVIOUS
<1>c. PICK c : c = m.requestor  OBVIOUS
<1>1. PICK data : data = [type |-> "DATA_FROM_DIR", addr |-> m.addr, data |-> m.data, ackCount |-> 0]
  OBVIOUS
<1>2. /\ a \in Addr /\ c \in Cache /\ DirOf[a] = d /\ m.data \in DataBlk /\ AtMem(c, a, m)
      /\ MemTake(m) /\ RespPut(d, c, data) /\ ReqSame /\ FwdSame
  BY <1>a, <1>c, <1>1, MemoryDelta
<1>3. /\ data.type = "DATA_FROM_DIR" /\ data.addr = a /\ data.data = m.data
      /\ data.type \in DataTypes
  BY <1>1, <1>a DEF DataTypes
<1>4. /\ dirState[a] \in {"IS_M", "IM_M"}
      /\ setState(a, IF dirState[a] = "IS_M" THEN "S" ELSE "M", owner[a], sharers[a])
      /\ sendData(d, c, a, m.data, 0)
      /\ UNCHANGED <<dirBlk, cacheState, entryBlk, lastWritten>>
  BY <1>a, <1>c DEF Memory_Data, cacheVars
<1>5. BacksInv' /\ BackSame
  <2>1. [type |-> "DATA_FROM_DIR", addr |-> a, data |-> m.data, ackCount |-> 0] \in ResponseMsg
    BY <1>2 DEF ResponseMsg
  <2>2. d \in Node  BY Places
  <2>3. QED  BY <1>2, <1>4, <2>1, <2>2, BacksOnSend DEF sendData, CoherenceInv
<1>6. RoleInv(a) /\ ValueInv(a)  BY <1>2 DEF CoherenceInv, CoherentLines
<1>7. \A x \in Addr :
        /\ dirState'[x] = IF x = a THEN (IF dirState[a] = "IS_M" THEN "S" ELSE "M") ELSE dirState[x]
        /\ owner'[x] = owner[x] /\ sharers'[x] = sharers[x]
  <2>1. \A x \in Addr :
          /\ dirState'[x] = IF x = a THEN (IF dirState[a] = "IS_M" THEN "S" ELSE "M") ELSE dirState[x]
          /\ owner'[x] = IF x = a THEN owner[a] ELSE owner[x]
          /\ sharers'[x] = IF x = a THEN sharers[a] ELSE sharers[x]
    BY <1>2, <1>4, DirStateSet
  <2>2. QED  BY <2>1
<1>8. SameFwds(a) /\ SameInvs(a) /\ SameBack(a)
  BY <1>2, <1>5, SameFwdsFrom DEF FwdSame, SameInvs, BackSame, SameBack
<1>9. SameRoles(a)
  <2>1. SUFFICES ASSUME NEW q \in Cache PROVE SameRole(q, a)  BY DEF SameRoles
  <2>2. Asking(q, a)' <=> Asking(q, a)  BY <1>2 DEF ReqSame, Asking
  <2>3. Served(q, a)' <=> Served(q, a)
    <3>1. CASE q = c
      <4>1. Served(q, a)'  BY <1>2, <1>3, <3>1 DEF RespPut, Served
      <4>2. Served(q, a)  BY <1>2, <3>1 DEF Served
      <4>3. QED  BY <4>1, <4>2
    <3>2. CASE q # c
      <4>1. \A k : AtMem(q, a, k)' <=> AtMem(q, a, k)
        <5>1. \A k : AtMem(q, a, k) => k # m  BY <1>c, <3>2, Addressed
        <5>2. QED  BY <1>2, <5>1 DEF MemTake
      <4>2. \A n, k : AtData(q, a, n, k)' <=> AtData(q, a, n, k)  BY <1>2, <3>2 DEF RespPut
      <4>3. QED  BY <4>1, <4>2 DEF Served
    <3>3. QED  BY <3>1, <3>2
  <2>4. QED  BY <1>4, <2>2, <2>3 DEF SameRole, Exclusive, Token, Copy
<1>10. RoleInv(a)'
  BY <1>2, <1>4, <1>6, <1>7, <1>8, <1>9, RolesKept
<1>11. ValueInv(a)'
  <2>1. data.data = lastWritten[a]  BY <1>2, <1>3, <1>6 DEF ValueInv
  <2>2. dirState'[a] \in Clean => dirBlk'[a] = lastWritten[a]
    BY <1>2, <1>4, <1>6, <1>7 DEF ValueInv, Clean
  <2>3. QED
    BY <1>2, <1>4, <1>5, <1>6, <2>1, <2>2, ValuesGiven DEF MemTake, RespPut, BackSame
<1>12. Elsewhere(a)
  <2>1. \A x \in Cache, y \in Addr : y # a => SameMessages(x, y)
    <3>1. \E k : k.addr = a /\ MemTake(k)  BY <1>2, <1>a
    <3>2. d \in Node  BY Places
    <3>3. \E n \in Node, q \in Cache : \E k : k.addr = a /\ RespPut(n, q, k)  BY <1>2, <1>3, <3>2
    <3>4. QED  BY <1>2, <1>5, <3>1, <3>3, MovesElsewhere
  <2>2. DirLineOnly(a)  BY <1>4, <1>7 DEF DirLineOnly, SameDir
  <2>3. QED  BY <1>2, <2>1, <2>2, StepElsewhere
<1>13. QED  BY <1>2, <1>5, <1>10, <1>11, <1>12, OtherLines DEF CoherenceInv

\* The memory has written the owner's block.
LEMMA MemoryAckLines ==
  ASSUME TypeOK, MissInv, CoherenceInv, NEW d \in Dir, NEW m \in memQueue, Memory_Ack(d, m),
         UNCHANGED <<cacheVars, lastWritten>>
  PROVE  BacksInv' /\ CoherentLines'
<1>a. PICK a : a = m.addr  OBVIOUS
<1>1. a \in Addr  BY <1>a DEF TypeOK, DirTypeOK, MemoryMsg
<1>2. dirState[a] # "MI_M"  BY <1>1 DEF CoherenceInv, NoDirty
<1>3. /\ dirState[a] = "MS_M" /\ m.type = "MEMORY_WB" /\ memQueue' = memQueue \ {m}
      /\ setState(a, "S", owner[a], sharers[a])
      /\ UNCHANGED <<requestNet, forwardNet, responseNet, dirBlk, cacheState, entryBlk, lastWritten>>
  BY <1>a, <1>2 DEF Memory_Ack, popMemQueue, cacheVars
<1>4. ReqSame /\ FwdSame /\ RespSame /\ BacksInv' /\ BackSame
  BY <1>3, RequestsSame, ForwardsSame, ResponsesSame, BacksSame DEF MissInv, ChannelInv, CoherenceInv
<1>5. MemSame  BY <1>3 DEF MemSame, AtMem
<1>6. RoleInv(a) /\ ValueInv(a)  BY <1>1 DEF CoherenceInv, CoherentLines
<1>7. \A x \in Addr : /\ dirState'[x] = IF x = a THEN "S" ELSE dirState[x]
                      /\ owner'[x] = owner[x] /\ sharers'[x] = sharers[x]
  <2>1. \A x \in Addr : /\ dirState'[x] = IF x = a THEN "S" ELSE dirState[x]
                        /\ owner'[x] = IF x = a THEN owner[a] ELSE owner[x]
                        /\ sharers'[x] = IF x = a THEN sharers[a] ELSE sharers[x]
    BY <1>1, <1>3, DirStateSet
  <2>2. QED  BY <2>1
<1>8. SameFwds(a) /\ SameInvs(a) /\ SameBack(a)
  BY <1>1, <1>4, SameFwdsFrom DEF FwdSame, SameInvs, BackSame, SameBack
<1>9. SameRoles(a)
  <2>1. SUFFICES ASSUME NEW q \in Cache PROVE SameRole(q, a)  BY DEF SameRoles
  <2>2. QED  BY <1>1, <1>3, <1>4, <1>5, SameRoleFrom DEF ReqSame, MemSame, RespSame
<1>10. RoleInv(a)'
  BY <1>1, <1>3, <1>6, <1>7, <1>8, <1>9, RolesKept
<1>11. ValueInv(a)'
  <2>1. dirBlk'[a] = lastWritten[a]  BY <1>3, <1>6 DEF ValueInv, Clean
  <2>2. QED
    BY <1>1, <1>3, <1>4, <1>5, <1>6, <2>1, ValuesGiven DEF MemSame, RespSame, BackSame
<1>12. Elsewhere(a)
  <2>1. \A x \in Cache, y \in Addr : y # a => SameMessages(x, y)
    BY <1>1, <1>4, <1>5, MovesElsewhere
  <2>2. DirLineOnly(a)  BY <1>3, <1>7 DEF DirLineOnly, SameDir
  <2>3. QED  BY <1>1, <2>1, <2>2, StepElsewhere
<1>13. QED  BY <1>1, <1>4, <1>10, <1>11, <1>12, OtherLines DEF CoherenceInv

LEMMA DirMemoryLines ==
  ASSUME TypeOK, MissInv, CoherenceInv, NEW d \in Dir, DirMemory(d)
  PROVE  BacksInv' /\ CoherentLines'
<1>1. UNCHANGED <<cacheVars, lastWritten>>  BY DEF DirMemory, seqVars
<1>2. PICK m \in memQueue : Memory_Data(d, m) \/ Memory_Ack(d, m)
  BY DEF DirMemory, MemoryStep
<1>3. QED  BY <1>1, <1>2, MemoryDataLines, MemoryAckLines

-----------------------------------------------------------------------------
(* Where nothing is evicted, no controller stops.                          *)

\* An invalidation finds a copy and a forward an owner.
LEMMA ForwardHandled ==
  ASSUME TypeOK, Fitting, MissInv, CoherenceInv, NEW c \in Cache, NEW d \in Dir, forwardNet[d][c] # <<>>,
         NEW m, m = Head(forwardNet[d][c])
  PROVE  <<m.type, cacheState[c][m.addr]>> \in ForwardTransitions
<1>1. m \in ForwardMsg /\ In(forwardNet, d, c, m)
  BY Nets, HeadIn
<1>2. m.type \in FwdTypes /\ m.requestor \in Cache /\ DirOf[m.addr] = d /\ m.addr \in Addr
  <2>1. m.type \in FwdTypes  BY <1>1 DEF CoherenceInv, NoEviction, Carries
  <2>2. QED  BY <1>1, <2>1 DEF MissInv, ChannelInv, ForwardsInv, ForwardMsg
<1>a. PICK a \in Addr : a = m.addr  BY <1>2
<1>r. PICK r \in Cache : r = m.requestor  BY <1>2
<1>3. RoleInv(a)  BY DEF CoherenceInv, CoherentLines
<1>4. CASE m.type = "INV"
  <2>1. m = InvMsg(a, r)  BY <1>1, <1>4, <1>a, <1>r DEF ForwardMsg, InvMsg
  <2>2. InvTo(c, a, r)  BY <1>1, <1>2, <1>a, <2>1 DEF InvTo
  <2>3. Copy(c, a)  BY <1>3, <2>2 DEF RoleInv, CopyInv
  <2>4. cacheState[c][a] \in {"S", "SM_AD", "IS_D"}  BY <2>3 DEF Copy
  <2>5. QED  BY <1>4, <1>a, <2>4 DEF ForwardTransitions, AfterInv, InvStalls
<1>5. CASE m.type \in GetTypes
  <2>1. AtFwd(r, a, c, m)  BY <1>1, <1>2, <1>5, <1>a, <1>r DEF AtFwd
  <2>2. Exclusive(c, a)
    <3>1. PICK rank \in [Cache -> Int], lo \in Int, hi \in Int : QueueOf(a, rank, lo, hi)
      BY <1>3 DEF RoleInv, QueueInv
    <3>2. CASE m.type = "GETS"
      <4>1. LastOwner(c, a)  BY <2>1, <3>2 DEF LastOwner, Fwd
      <4>2. QED  BY <3>1, <4>1 DEF QueueOf
    <3>3. CASE m.type = "GETM"
      <4>1. Fwd(c, a, "GETM", r)  BY <2>1, <3>3 DEF Fwd
      <4>2. QED  BY <3>1, <4>1 DEF QueueOf
    <3>4. QED  BY <1>5, <3>2, <3>3 DEF GetTypes
  <2>3. cacheState[c][a] \in {"M"} \cup StoreMiss  BY <2>2 DEF Exclusive, StoreMiss
  <2>4. QED  BY <1>5, <1>a, <2>3 DEF ForwardTransitions, GetTypes
<1>6. QED  BY <1>2, <1>4, <1>5 DEF FwdTypes, GetTypes

LEMMA CacheHandles ==
  ASSUME TypeOK, Fitting, MissInv, CoherenceInv, NEW c \in Cache
  PROVE  ~CacheFatal(c)
<1>1. \A d \in Dir : AtHead(forwardNet, forwardHead, d, c) =>
        <<Head(forwardNet[d][c]).type, cacheState[c][Head(forwardNet[d][c]).addr]>> \in ForwardTransitions
  BY ForwardHandled DEF AtHead
<1>2. \A n \in Node : responseNet[n][c] # <<>> =>
        <<ResponseEvent(c, Head(responseNet[n][c])), cacheState[c][Head(responseNet[n][c]).addr]>>
          \in ResponseTransitions
  BY ResponsesExpectedHolds DEF ResponsesExpected
<1>3. QED  BY <1>1, <1>2 DEF CacheFatal, CacheInvalidTransition

\* A request is one that every state handles, and a block is awaited.
LEMMA DirHandles ==
  ASSUME TypeOK, Fitting, CoherenceInv, NEW d \in Dir
  PROVE  ~DirFatal(d)
<1>1. ASSUME NEW c \in Cache, AtHead(requestNet, requestHead, c, d),
             NEW m, m = Head(requestNet[c][d])
      PROVE  <<RequestEvent(c, m), dirState[m.addr]>> \in RequestTransitions
  <2>1. m \in RequestMsg /\ In(requestNet, c, d, m)
    BY <1>1, Nets, HeadIn DEF AtHead
  <2>2. m.type \in GetTypes  BY <2>1 DEF CoherenceInv, NoEviction, Carries
  <2>3. RequestEvent(c, m) \in GetTypes  BY <2>1, <2>2, RequestTypes
  <2>4. dirState[m.addr] \in DirStable \cup DirTransient
    BY <2>1 DEF RequestMsg, TypeOK, DirTypeOK
  <2>5. QED  BY <2>3, <2>4 DEF RequestTransitions, GetTypes
<1>2. ASSUME NEW c \in Cache, responseNet[c][d] # <<>>, NEW m, m = Head(responseNet[c][d])
      PROVE  dirState[m.addr] = "MS_D"
  <2>1. c \in Node /\ d \in Node  BY Places
  <2>2. m \in ResponseMsg /\ In(responseNet, c, d, m)
    BY <1>2, <2>1, Nets, HeadIn
  <2>3. m.addr \in Addr /\ DirOf[m.addr] = d
    BY <2>1, <2>2 DEF ResponseMsg, CoherenceInv, BacksInv
  <2>4. AtBack(c, m.addr, m)  BY <2>2, <2>3 DEF AtBack
  <2>5. QED  BY <2>3, <2>4 DEF CoherenceInv, CoherentLines, RoleInv, BackInv
<1>3. QED  BY <1>1, <1>2 DEF DirFatal, DirInvalidTransition, DataArrived

\* Entering any state but I, setState fails only on the assertion for M.
LEMMA StateEntered ==
  ASSUME NoAssertM', Running, NEW a, NEW s, NEW own, NEW shr, setState(a, s, own, shr), s # "I"
  PROVE  Running'
BY DEF setState, Running, NoAssertM

LEMMA DirRequestRuns ==
  ASSUME TypeOK, Fitting, CoherenceInv, NoAssertM', NEW d \in Dir, NEW c \in Cache, DirRequest(d, c)
  PROVE  Running'
<1>1. Running /\ RequestStep(d, c) /\ ~PutStep(d, c)
  BY RequestIsGet DEF DirRequest, CoherenceInv
<1>2. CASE RequestStall(d, c)
  BY <1>1, <1>2 DEF RequestStall, Running
<1>3. CASE \/ GETS_I(d, c) \/ GETM_I(d, c) \/ GETS_S(d, c) \/ GETM_S(d, c)
           \/ GETS_M(d, c) \/ GETM_M(d, c)
  <2>1. \E a, own, shr : \E s \in {"IS_M", "IM_M", "S", "M", "MS_D"} : setState(a, s, own, shr)
    BY <1>3, Zenon DEF GETS_I, GETM_I, GETS_S, GETM_S, GETS_M, GETM_M
  <2>2. QED  BY <1>1, <2>1, StateEntered
<1>4. QED  BY <1>1, <1>2, <1>3 DEF RequestStep, PutStep

LEMMA DirResponseRuns ==
  ASSUME TypeOK, CoherenceInv, NoAssertM', NEW d \in Dir, NEW c \in Cache, DirResponse(d, c)
  PROVE  Running'
<1>1. Running /\ DataStep(d, c)  BY DEF DirResponse
<1>2. \E a, own, shr : \E s \in {"S", "M", "MS_M"} : setState(a, s, own, shr)
  BY <1>1, Zenon DEF DataStep, Data_Dropped, Data_MS_D, Data_MS_M, DataArrived
<1>3. QED  BY <1>1, <1>2, StateEntered

LEMMA DirMemoryRuns ==
  ASSUME TypeOK, CoherenceInv, NoAssertM', NEW d \in Dir, DirMemory(d)
  PROVE  Running'
<1>1. Running  BY DEF DirMemory
<1>2. PICK m \in memQueue : Memory_Data(d, m) \/ Memory_Ack(d, m)
  BY DEF DirMemory, MemoryStep
<1>3. m.addr \in Addr  BY DEF TypeOK, DirTypeOK, MemoryMsg
<1>4. dirState[m.addr] # "MI_M"  BY <1>3 DEF CoherenceInv, NoDirty
<1>5. \E own, shr : \E s \in {"S", "M"} : setState(m.addr, s, own, shr)
  BY <1>2, <1>4 DEF Memory_Data, Memory_Ack
<1>6. QED  BY <1>1, <1>5, StateEntered

LEMMA RunningNext ==
  ASSUME TypeOK, Fitting, MissInv, CoherenceInv, NoAssertM', Running, [Next]_vars
  PROVE  Running'
<1>1. CASE UNCHANGED vars
  BY <1>1 DEF vars, netVars, Running
<1>2. ASSUME NEW c \in Cache, ProcessorRequest(c) PROVE Running'
  BY <1>2 DEF ProcessorRequest, Running
<1>3. ASSUME NEW c \in Cache, NEW a \in Addr, CacheMandatory(c, a) PROVE Running'
  BY <1>3 DEF CacheMandatory, Running
<1>4. ASSUME NEW c \in Cache, CacheReplacement(c) PROVE Running'
  BY <1>4 DEF CacheReplacement, Running
<1>5. ASSUME NEW c \in Cache, NEW d \in Dir, CacheForward(c, d) PROVE Running'
  BY <1>5 DEF CacheForward, Running
<1>6. ASSUME NEW c \in Cache, NEW n \in Node, CacheResponse(c, n) PROVE Running'
  BY <1>6 DEF CacheResponse, Running
<1>7. \A c \in Cache : ~CacheFatal(c)  BY CacheHandles
<1>8. ASSUME NEW d \in Dir, NEW c \in Cache, DirRequest(d, c) PROVE Running'
  BY <1>8, DirRequestRuns
<1>9. ASSUME NEW d \in Dir, NEW c \in Cache, DirResponse(d, c) PROVE Running'
  BY <1>9, DirResponseRuns
<1>10. ASSUME NEW d \in Dir, DirMemory(d) PROVE Running'
  BY <1>10, DirMemoryRuns
<1>11. \A d \in Dir : ~DirFatal(d)  BY DirHandles
<1>12. QED  BY <1>1, <1>2, <1>3, <1>4, <1>5, <1>6, <1>7, <1>8, <1>9, <1>10, <1>11
            DEF Next, ControllerStep

-----------------------------------------------------------------------------
(* The inductive invariant.                                                *)

LEMMA LinesNext ==
  ASSUME TypeOK, DirectoryEntries, MissInv, MissInv', AllCovered, CoherenceInv,
         [Next]_vars, [~DirtyEviction]_vars
  PROVE  BacksInv' /\ CoherentLines'
<1> DEFINE Goal == BacksInv' /\ CoherentLines'
<1>q. ASSUME UNCHANGED <<netVars, cacheVars, dirVars, lastWritten>> PROVE Goal
  <2>1. UNCHANGED <<requestNet, forwardNet, responseNet, memQueue, cacheState, entryBlk,
                    dirState, owner, sharers, dirBlk, lastWritten>>
    BY <1>q DEF netVars, cacheVars, dirVars
  <2>2. QED  BY <2>1, QuietLines DEF CoherenceInv
<1>1. CASE UNCHANGED vars
  BY <1>1, <1>q DEF vars, seqVars
<1>2. ASSUME NEW c \in Cache, ProcessorRequest(c) PROVE Goal
  BY <1>2, <1>q DEF ProcessorRequest, makeRequest
<1>3. ASSUME NEW c \in Cache, NEW a \in Addr, CacheMandatory(c, a) PROVE Goal
  BY <1>3, CacheMandatoryLines
<1>4. ASSUME NEW c \in Cache, CacheReplacement(c), ~DirtyEviction PROVE Goal
  <2>1. PICK a \in Addr : Replacement(c, a)  BY <1>4 DEF CacheReplacement
  <2>2. QED  BY <1>4, <2>1, CacheReplacementLines DEF CacheReplacement
<1>5. ASSUME NEW c \in Cache, NEW d \in Dir, CacheForward(c, d) PROVE Goal
  BY <1>5, CacheForwardLines
<1>6. ASSUME NEW c \in Cache, NEW n \in Node, CacheResponse(c, n) PROVE Goal
  BY <1>6, CacheResponseLines
<1>7. ASSUME NEW c \in Cache, CacheFatal(c) PROVE Goal
  BY <1>7, <1>q DEF CacheFatal, CacheInvalidTransition, seqVars
<1>8. ASSUME NEW d \in Dir, NEW c \in Cache, DirRequest(d, c) PROVE Goal
  BY <1>8, DirRequestLines
<1>9. ASSUME NEW d \in Dir, NEW c \in Cache, DirResponse(d, c) PROVE Goal
  BY <1>9, DirResponseLines
<1>10. ASSUME NEW d \in Dir, DirMemory(d) PROVE Goal
  BY <1>10, DirMemoryLines
<1>11. ASSUME NEW d \in Dir, DirFatal(d) PROVE Goal
  BY <1>11, <1>q DEF DirFatal, DirInvalidTransition, seqVars
<1>12. QED  BY <1>1, <1>2, <1>3, <1>4, <1>5, <1>6, <1>7, <1>8, <1>9, <1>10, <1>11
            DEF Next, ControllerStep

LEMMA CoherenceNext ==
  ASSUME TypeOK, DirectoryEntries, MissInv, MissInv', AllCovered, CoherenceInv,
         [Next]_vars, [~DirtyEviction]_vars
  PROVE  CoherenceInv'
<1>1. Fitting' <=> Fitting  BY DEF Fitting
<1>2. Fitting => NoEviction'  BY NoEvictionNext DEF CoherenceInv
<1>3. NoDirty'  BY NoDirtyNext DEF CoherenceInv
<1>4. BacksInv' /\ CoherentLines'  BY LinesNext
<1>5. QED  BY <1>1, <1>2, <1>3, <1>4 DEF CoherenceInv

LEMMA NoQueue ==
  ASSUME NEW a \in Addr, ~Owned(a),
         \A q \in Cache : ~Exclusive(q, a) /\ ~Token(q, a) /\ ~Copy(q, a),
         \A q \in Cache : ~LastOwner(q, a), \A q, r \in Cache : \A t : ~Fwd(q, a, t, r)
  PROVE  QueueInv(a)
<1>1. PICK rk \in [Cache -> Int] : \A q \in Cache : rk[q] = 0
  <2>1. [q \in Cache |-> 0] \in [Cache -> Int]  OBVIOUS
  <2>2. QED  BY <2>1
<1>2. QueueOf(a, rk, 2, 1)  BY <1>1 DEF QueueOf
<1>3. QED  BY <1>2 DEF QueueInv

\* At first no cache plays a part for any line.
LEMMA CoherenceInit == Init => CoherenceInv
<1> SUFFICES ASSUME Init PROVE CoherenceInv
  OBVIOUS
<1> USE DEF Init, NetInit, SeqInit, CacheInit, DirInit
<1>1. \A c \in Cache, d \in Dir : \A m : ~In(forwardNet, d, c, m)  BY DEF In, Range
<1>2. \A n \in Node, q \in Node : \A m : ~In(responseNet, n, q, m)  BY DEF In, Range
<1>3. BacksInv
  <2>1. AllDistinct(responseNet, {"DATA"})  BY DEF AllDistinct, Distinct
  <2>2. QED  BY <1>2, <2>1, Places DEF BacksInv
<1>4. ASSUME NEW a \in Addr PROVE RoleInv(a) /\ ValueInv(a)
  <2>1. /\ \A c \in Cache : cacheState[c][a] = "I"
        /\ dirState[a] = "I" /\ owner[a] = {} /\ sharers[a] = {}
        /\ dirBlk[a] = lastWritten[a] /\ memQueue = {}
    OBVIOUS
  <2>2. \A c \in Cache : ~Exclusive(c, a) /\ ~Token(c, a) /\ ~Copy(c, a)
    BY <2>1 DEF Exclusive, Token, Copy
  <2>3. \A q, r \in Cache : \A t : ~Fwd(q, a, t, r)
    BY <1>1, Places DEF Fwd, AtFwd
  <2>4. \A q, p \in Cache : ~InvTo(q, a, p)  BY <1>1, Places DEF InvTo
  <2>5. \A q \in Cache : \A m : ~AtBack(q, a, m) /\ ~AtMem(q, a, m)
    BY <1>2, <2>1, Places DEF AtBack, AtMem
  <2>6. \A q \in Cache : \A n, m : ~AtData(q, a, n, m)  BY <1>2, Places DEF AtData
  <2>7. ~Owned(a)  BY <2>1, <2>3 DEF Owned
  <2>8. \A q \in Cache : ~LastOwner(q, a)  BY <2>1, <2>3 DEF LastOwner
  <2>9. QueueInv(a)  BY <2>2, <2>3, <2>7, <2>8, NoQueue
  <2>10. ForwardInv(a)  BY <2>2, <2>3 DEF ForwardInv
  <2>11. TokenInv(a) /\ CopyInv(a)  BY <2>1, <2>2, <2>4, <2>7 DEF TokenInv, CopyInv
  <2>12. BackInv(a)  BY <2>5 DEF BackInv
  <2>13. ValueInv(a)  BY <2>1, <2>5, <2>6 DEF ValueInv, Held
  <2>14. QED  BY <2>9, <2>10, <2>11, <2>12, <2>13 DEF RoleInv
<1>5. QED  BY <1>3, <1>4, NoEvictionInit, NoDirtyInit DEF CoherenceInv, CoherentLines

\* As long as no written line is evicted, the owners of each line form a queue,
\* the directory knows the copies and every readable block is the latest, even
\* where clean lines are evicted and after a controller has stopped.
THEOREM CoherenceCorrect == Spec /\ [][~DirtyEviction]_vars => []CoherenceInv
<1>1. Init => CoherenceInv
  BY CoherenceInit
<1>2. TypeOK /\ DirectoryEntries /\ MissInv /\ MissInv' /\ AllCovered
        /\ CoherenceInv /\ [Next]_vars /\ [~DirtyEviction]_vars => CoherenceInv'
  BY CoherenceNext
<1>3. QED
  BY <1>1, <1>2, TypeCorrect, EntriesCorrect, MissesCorrect, PartsKnown, PTL DEF Spec

\* Where the lines fit into a cache none is evicted.
LEMMA NoneEvicted == ASSUME Fitting PROVE Spec => [][~DirtyEviction]_vars
<1>1. TypeOK => ~DirtyEviction
  <2>1. SUFFICES ASSUME TypeOK, NEW c \in Cache, NEW a \in Addr, Replacement(c, a) PROVE FALSE
    BY DEF DirtyEviction
  <2>2. \A x \in mandatoryQueue[c] : x \in Addr  BY <2>1 DEF TypeOK, SeqTypeOK
  <2>3. QED  BY <2>1, <2>2, RoomLeft DEF Replacement
<1>2. QED  BY <1>1, TypeCorrect, PTL

-----------------------------------------------------------------------------
(* What follows from the invariant.                                        *)

LEMMA ReadableHeld == \A s \in Readable : s \in Held
BY DEF Readable, Held

LEMMA SWMRHolds ==
  ASSUME MissInv, CoherenceInv
  PROVE  SWMR
<1>1. SUFFICES ASSUME NEW a \in Addr, NEW p \in Cache, NEW q \in Cache,
                      cacheState[p][a] = "M", p # q
               PROVE  cacheState[q][a] \notin Readable
  BY DEF SWMR
<1>2. RoleInv(a)  BY DEF CoherenceInv, CoherentLines
<1>3. Token(p, a) /\ Class(p, a) = "none"  BY <1>1 DEF Token, Class, ClassOf
<1>4. \A x \in Cache : ~InvTo(x, a, p)  BY <1>3, IdleRole
<1>5. \A x \in Cache : Served(x, a) => Class(x, a) \in {"load", "store"}  BY ServedClass
<1>6. cacheState[q][a] \notin Held  BY <1>1, <1>2, <1>3, <1>4, <1>5, StoreAlone
<1>7. QED  BY <1>6, ReadableHeld

LEMMA ReadsLatestHolds ==
  ASSUME CoherenceInv
  PROVE  ReadsLatest
BY ReadableHeld DEF ReadsLatest, CoherenceInv, CoherentLines, ValueInv

\* A cache in M excludes every other readable copy, whatever upgrades, forwards,
\* invalidations, stalls and evictions of clean lines are under way: only the
\* eviction of a written line (Replacement in M) can break it.
THEOREM SingleWriter == Spec /\ [][~DirtyEviction]_vars => []SWMR
<1>1. MissInv /\ CoherenceInv => SWMR  BY SWMRHolds
<1>2. QED  BY <1>1, MissesCorrect, CoherenceCorrect, PTL

\* A load that hits reads all the stores made to the line so far, which the
\* random tester checks at each load, as long as no written line is evicted.
THEOREM LoadsReadLatest == Spec /\ [][~DirtyEviction]_vars => []ReadsLatest
<1>1. CoherenceInv => ReadsLatest  BY ReadsLatestHolds
<1>2. QED  BY <1>1, CoherenceCorrect, PTL

\* No controller calls fatal and no assertion of setState fails, as long as no
\* line is evicted.  Clean evictions are enough to stop a directory: a PUTS that
\* comes after its cache has been struck from the sharers looks like the last
\* one, and the line enters I with the sharer that is left.
THEOREM NeverStops == Fitting => (Spec => []NoFault)
<1>1. Init => Running
  BY DEF Init, NetInit, Running
<1>2. ASSUME Fitting PROVE
        TypeOK /\ MissInv /\ CoherenceInv /\ NoAssertM' /\ Running /\ [Next]_vars => Running'
  BY <1>2, RunningNext
<1>3. Running => NoFault  BY DEF NoFault
<1>4. CASE Fitting
  BY <1>1, <1>2, <1>3, <1>4, TypeCorrect, NeverAssertM, MissesCorrect, NoneEvicted,
     CoherenceCorrect, PTL DEF Spec
<1>5. QED  BY <1>4
=============================================================================
