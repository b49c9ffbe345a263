---------------------------- MODULE Access_proofs ----------------------------
(***************************************************************************)
(* Proofs about Access, for any people, clients, websites and worlds.      *)
(*                                                                         *)
(* The argument: an identifier is given once, the register is written      *)
(* before a deletion is answered, and no website lives without its client, *)
(* also in a backup.  So what an old backup brings back of an answered     *)
(* deletion is found by the register, the websites through their client.   *)
(* Of roles: who administers a client was appointed by the superuser, and  *)
(* the global role is at least as high as every membership (RoleInv), as   *)
(* long as changes of members do not overlap (ChangesAlone).               *)
(***************************************************************************)
EXTENDS Access, FiniteSetTheorems, TLAPS

\* The database is a record of these columns; Erased and the requests keep them.
Shape(d) == DOMAIN d = {"users", "roles", "live", "invitations", "sessions"}

\* No website lives without its client.
Housed(d) == \A w \in Websites : w \in d.live => OwnerOf[w] \in d.live

\* A state of the rows that the service was in, or that a backup holds.
Sound(d) ==
    /\ Shape(d)
    /\ d.live \subseteq given
    /\ Housed(d)

Inv ==
    /\ Sound(db)
    /\ \A d \in backup : Sound(d)
    /\ given \subseteq Entities
    /\ answered \subseteq ledger /\ ledger \subseteq given /\ deleting \subseteq given
    /\ service \in {"up", "stopped"}
    /\ \A e \in Covered(deleting) : e \notin db.live
    /\ DeletedStaysDeleted

-----------------------------------------------------------------------------
LEMMA WebsitesApart == \A w \in Websites : w \notin Clients /\ OwnerOf[w] \in Clients
BY AccessAssumption

\* A deletion takes what it covers away, and nothing comes to live.
LEMMA ErasedFacts ==
    ASSUME NEW d, Shape(d), Housed(d), NEW es \in SUBSET Entities
    PROVE  /\ Shape(Erased(d, es)) /\ Housed(Erased(d, es))
           /\ Erased(d, es).live = d.live \ Covered(es)
<1>1. Shape(Erased(d, es)) /\ Erased(d, es).live = d.live \ Covered(es)
  BY DEF Shape, Erased
<1>2. ASSUME NEW w \in Websites, w \in d.live \ Covered(es)
      PROVE  OwnerOf[w] \in d.live \ Covered(es)
  <2>1. OwnerOf[w] \in d.live /\ OwnerOf[w] \notin es
    BY <1>2 DEF Housed, Covered
  <2>2. OwnerOf[w] \notin Websites
    BY WebsitesApart
  <2> QED
    BY <2>1, <2>2 DEF Covered
<1> QED
  BY <1>1, <1>2 DEF Housed

\* What a request keeps of the rows this proof is about.
SameRows == /\ Shape(db') /\ db'.live = db.live
            /\ UNCHANGED <<deleting, ledger, backup, service, given, answered>>

LEMMA SameRowsInv ==
    ASSUME Inv, SameRows
    PROVE  Inv'
BY DEF Inv, SameRows, Sound, Housed, DeletedStaysDeleted, Covered

LEMMA AccountRequest ==
    ASSUME Inv, NEW p, NEW r, NEW i, NEW s,
           \/ Login(p) \/ SetupMfa(p) \/ ConfirmMfa(p) \/ Leave(s)
           \/ InvitationExpires(i) \/ AcceptInvitation(i)
           \/ \E to, c, role : Invite(p, to, c, role)
           \/ \E u, c, role : ReadChange(p, u, c, role)
           \/ WriteChange(r)
    PROVE  Inv'
<1> USE DEF Inv, Sound, Shape, SameRows
<1>1. CASE Login(p) \/ SetupMfa(p) \/ ConfirmMfa(p) \/ Leave(s) \/ InvitationExpires(i)
  BY <1>1, SameRowsInv DEF Login, SetupMfa, ConfirmMfa, Leave, InvitationExpires, Settled, WithSession, OnlyDb
<1>2. CASE AcceptInvitation(i)
  BY <1>2, SameRowsInv DEF AcceptInvitation, Accepted, Settled, WithSession, OnlyDb
<1>3. CASE \E to, c, role : Invite(p, to, c, role)
  BY <1>3, SameRowsInv DEF Invite
<1>4. CASE \E u, c, role : ReadChange(p, u, c, role)
  BY <1>4, SameRowsInv DEF ReadChange
<1>5. CASE WriteChange(r)
  BY <1>5, SameRowsInv DEF WriteChange, Revoked
<1> QED
  BY <1>1, <1>2, <1>3, <1>4, <1>5

\* New clients and websites have identifiers that were never given before.
Arrives(new) ==
    /\ new \subseteq Entities \ given
    /\ \A w \in new \intersect Websites : OwnerOf[w] \in db.live \union new
    /\ Shape(db') /\ db'.live = db.live \union new
    /\ given' = given \union new
    /\ UNCHANGED <<deleting, ledger, backup, service, answered>>

LEMMA ArrivesInv ==
    ASSUME Inv, service = "up", NEW new, Arrives(new)
    PROVE  Inv'
<1> USE DEF Inv, Arrives
<1>1. Sound(db)'
  BY DEF Sound, Housed
<1>2. \A d \in backup' : Sound(d)'
  BY DEF Sound, Housed
<1>3. ASSUME NEW es \in SUBSET given, \A e \in Covered(es) : e \notin db.live
      PROVE  \A e \in Covered(es) : e \notin db.live \union new
  BY <1>3, WebsitesApart DEF Covered, Entities
<1>4. \A e \in Covered(deleting) : e \notin db'.live
  BY <1>3
<1>5. \A e \in Covered(answered) : e \notin db'.live
  BY <1>3 DEF DeletedStaysDeleted
<1> QED
  BY <1>1, <1>2, <1>4, <1>5 DEF DeletedStaysDeleted, Covered

LEMMA CreateInv ==
    ASSUME Inv, NEW by,
           \/ \E c \in Clients, sites \in SUBSET Websites : CreateClient(by, c, sites)
           \/ \E w \in Websites : CreateWebsite(by, w)
    PROVE  Inv'
<1>1. CASE \E c \in Clients, sites \in SUBSET Websites : CreateClient(by, c, sites)
  <2>1. PICK c \in Clients, sites \in SUBSET Websites : CreateClient(by, c, sites)
    BY <1>1
  <2>2. Arrives({c} \union sites)
    <3>1. {c} \union sites \subseteq Entities \ given
      BY <2>1 DEF CreateClient, Entities
    <3>2. \A w \in ({c} \union sites) \intersect Websites : OwnerOf[w] = c
      BY <2>1, WebsitesApart DEF CreateClient
    <3>3. Shape(db') /\ db'.live = db.live \union {c} \union sites
      BY <2>1 DEF CreateClient, Inv, Sound, Shape
    <3> QED
      BY <2>1, <3>1, <3>2, <3>3 DEF CreateClient, Arrives
  <2> QED
    BY <2>1, <2>2, ArrivesInv DEF CreateClient, Takes
<1>2. CASE \E w \in Websites : CreateWebsite(by, w)
  <2>1. PICK w \in Websites : CreateWebsite(by, w)
    BY <1>2
  <2>2. Arrives({w})
    BY <2>1 DEF CreateWebsite, Arrives, Entities, Inv, Sound, Shape
  <2> QED
    BY <2>1, <2>2, ArrivesInv DEF CreateWebsite, Takes
<1> QED
  BY <1>1, <1>2

LEMMA DeleteInv ==
    ASSUME Inv, NEW by, NEW e \in Entities, Delete(by, e)
    PROVE  Inv'
<1>1. service = "up" /\ e \in db.live
  BY DEF Delete, Takes
<1>2. /\ db' = Erased(db, {e}) /\ deleting' = deleting \union {e}
      /\ UNCHANGED <<ledger, backup, service, given, answered>>
  BY DEF Delete
<1>3. Shape(db') /\ Housed(db') /\ db'.live = db.live \ Covered({e})
  BY <1>2, ErasedFacts DEF Inv, Sound
<1>4. Sound(db)' /\ \A d \in backup' : Sound(d)'
  BY <1>2, <1>3 DEF Inv, Sound, Housed
<1>5. \A x \in Covered(deleting') : x \notin db'.live
  BY <1>2, <1>3 DEF Inv, Covered
<1>6. deleting' \subseteq given
  BY <1>1, <1>2 DEF Inv, Sound
<1>7. DeletedStaysDeleted'
  BY <1>2, <1>3 DEF Inv, DeletedStaysDeleted, Covered
<1> QED
  BY <1>2, <1>4, <1>5, <1>6, <1>7 DEF Inv, Covered

LEMMA RecordInv ==
    ASSUME Inv, NEW e \in deleting, RecordDeletion(e)
    PROVE  Inv'
<1>1. /\ deleting' = deleting \ {e} /\ ledger' = ledger \union {e}
      /\ answered' = answered \union {e} /\ UNCHANGED <<db, backup, service, given>>
      /\ service = "up"
  BY DEF RecordDeletion
<1>2. Sound(db)' /\ \A d \in backup' : Sound(d)'
  BY <1>1 DEF Inv, Sound, Housed
<1>3. DeletedStaysDeleted'
  BY <1>1 DEF Inv, DeletedStaysDeleted, Covered
<1>4. \A x \in Covered(deleting') : x \notin db'.live
  BY <1>1 DEF Inv, Covered
<1> QED
  BY <1>1, <1>2, <1>3, <1>4 DEF Inv, Covered

LEMMA CrashInv ==
    ASSUME Inv, Crash \/ TakeBackup
    PROVE  Inv'
<1> USE DEF Inv, Sound, Housed, DeletedStaysDeleted, Covered
<1>1. CASE Crash
  BY <1>1 DEF Crash
<1>2. CASE TakeBackup
  BY <1>2 DEF TakeBackup
<1> QED
  BY <1>1, <1>2

LEMMA RestoreInv ==
    ASSUME Inv, Restore
    PROVE  Inv'
BY DEF Inv, Restore, Sound, Housed, DeletedStaysDeleted, Covered

\* The heart of the matter: the register finds whatever came back.
LEMMA ReapplyInv ==
    ASSUME Inv, ReapplyDeletions
    PROVE  Inv'
<1> DEFINE back == ledger \intersect db.live
<1>1. db' = Erased(db, back) /\ UNCHANGED <<deleting, ledger, backup, given, answered>>
  BY DEF ReapplyDeletions, Reapplied
<1>2. back \subseteq Entities
  BY DEF Inv
<1>3. Shape(db') /\ Housed(db') /\ db'.live = db.live \ Covered(back)
  BY <1>1, <1>2, ErasedFacts DEF Inv, Sound
<1>4. \A e \in Covered(answered) : e \notin db'.live
  <2>1. ASSUME NEW e \in answered, e \in db'.live
        PROVE  FALSE
    BY <1>3, <2>1 DEF Inv, Covered
  <2>2. ASSUME NEW w \in Websites, OwnerOf[w] \in answered, w \in db'.live
        PROVE  FALSE
    <3>1. OwnerOf[w] \in db.live
      BY <1>3, <2>2 DEF Inv, Sound, Housed
    <3>2. OwnerOf[w] \in back
      BY <2>2, <3>1 DEF Inv
    <3> QED
      BY <1>3, <2>2, <3>2 DEF Covered
  <2> QED
    BY <2>1, <2>2 DEF Covered
<1>5. \A e \in Covered(deleting') : e \notin db'.live
  BY <1>1, <1>3 DEF Inv
<1>6. Sound(db)' /\ \A d \in backup' : Sound(d)'
  BY <1>1, <1>3 DEF Inv, Sound, Housed
<1>7. service' = "up"
  BY DEF ReapplyDeletions
<1> QED
  BY <1>1, <1>4, <1>5, <1>6, <1>7 DEF Inv, DeletedStaysDeleted, Covered

-----------------------------------------------------------------------------
LEMMA InitInv == Init => Inv
BY DEF Init, Inv, Sound, Shape, Housed, DeletedStaysDeleted, Covered

LEMMA NextInv == Inv /\ [Next]_vars => Inv'
<1> SUFFICES ASSUME Inv, [Next]_vars PROVE Inv'
  OBVIOUS
<1>1. ASSUME NEW by \in People, RequestOf(by) PROVE Inv'
  <2>1. CASE Login(by) \/ SetupMfa(by) \/ ConfirmMfa(by)
    BY <2>1, AccountRequest
  <2>2. CASE \E to \in Here.people, c \in Clients, role \in MemberRoles : Invite(by, to, c, role)
    BY <2>2, AccountRequest
  <2>3. CASE \E p \in People, c \in Clients, role \in MemberRoles \union {"none"} :
               ReadChange(by, p, c, role)
    BY <2>3, AccountRequest
  <2>4. CASE \E c \in Clients, sites \in {{}} \union {{w} : w \in Websites} :
               CreateClient(by, c, sites)
    <3>1. {{}} \union {{w} : w \in Websites} \subseteq SUBSET Websites
      OBVIOUS
    <3> QED
      BY <2>4, <3>1, CreateInv
  <2>5. CASE \E w \in Websites : CreateWebsite(by, w)
    BY <2>5, CreateInv
  <2>6. CASE \E e \in Entities : Delete(by, e)
    BY <2>6, DeleteInv
  <2> QED
    BY <1>1, <2>1, <2>2, <2>3, <2>4, <2>5, <2>6 DEF RequestOf
<1>2. CASE \E s \in db.sessions : Leave(s)
  BY <1>2, AccountRequest
<1>3. CASE \E i \in db.invitations : InvitationExpires(i) \/ AcceptInvitation(i)
  BY <1>3, AccountRequest
<1>4. CASE \E r \in open : WriteChange(r)
  BY <1>4, AccountRequest
<1>5. CASE \E e \in deleting : RecordDeletion(e)
  BY <1>5, RecordInv
<1>6. CASE Crash \/ TakeBackup \/ Restore \/ ReapplyDeletions
  BY <1>6, CrashInv, RestoreInv, ReapplyInv
<1>7. CASE UNCHANGED vars
  BY <1>7, SameRowsInv DEF vars, SameRows, Inv, Sound, Shape
<1> QED
  BY <1>1, <1>2, <1>3, <1>4, <1>5, <1>6, <1>7 DEF Next

\* What was deleted, and answered, stays deleted while the service runs, whatever
\* is created, deleted, lost in a crash or brought back by a restore.
THEOREM DeletionsHold == Spec => []DeletedStaysDeleted
<1>1. Inv => DeletedStaysDeleted
  BY DEF Inv
<1> QED
  BY <1>1, InitInv, NextInv, PTL DEF Spec

-----------------------------------------------------------------------------
(* The types *)

LEMMA SyncedTyped ==
    ASSUME NEW account \in Account, NEW roles
    PROVE  Synced(account, roles) \in Account
<1>1. HighestOf(roles, account.role) \in MemberRoles \union {"superuser", "none"}
  BY DEF HighestOf, Account, MemberRoles
<1>2. ASSUME NEW role \in MemberRoles \union {"superuser", "none"}, NEW active \in BOOLEAN
      PROVE  [account EXCEPT !.active = active, !.role = role] \in Account
  BY DEF Account
<1>3. (roles # {}) \in BOOLEAN
  OBVIOUS
<1> QED
  BY <1>1, <1>2, <1>3 DEF Synced

\* A database in which some tables are others.
LEMMA DatabaseOf ==
    ASSUME NEW d \in Database,
           NEW users \in [People -> Account],
           NEW roles \in [People -> [Clients -> MemberRoles \union {"none"}]],
           NEW live \in SUBSET Entities,
           NEW invitations \in SUBSET Invitation,
           NEW sessions \in SUBSET Session
    PROVE  [d EXCEPT !.users = users, !.roles = roles, !.live = live,
                     !.invitations = invitations, !.sessions = sessions] \in Database
BY DEF Database

LEMMA TablesTyped ==
    ASSUME NEW d \in Database
    PROVE  /\ d.users \in [People -> Account]
           /\ d.roles \in [People -> [Clients -> MemberRoles \union {"none"}]]
           /\ d.live \subseteq Entities
           /\ d.invitations \subseteq Invitation
           /\ d.sessions \subseteq Session
           /\ d = [users |-> d.users, roles |-> d.roles, live |-> d.live,
                   invitations |-> d.invitations, sessions |-> d.sessions]
BY DEF Database

LEMMA SessionTyped ==
    ASSUME NEW d \in Database, NEW p \in People
    PROVE  WithSession(d, p) \in Database /\ Revoked(d, p) \in Database
<1>1. [user |-> p, ttl |-> TtlOf(d.users[p].role)] \in Session
  BY DEF Session, TtlOf
<1> QED
  BY <1>1 DEF WithSession, Revoked, Database

LEMMA SettledTyped ==
    ASSUME NEW d \in Database, NEW i \in d.invitations, NEW state \in {"accepted", "expired"}
    PROVE  Settled(d, i, state) \in Database
<1>1. i \in Invitation
  BY DEF Database
<1>2. [i EXCEPT !.state = state] \in Invitation
  BY <1>1 DEF Invitation
<1> QED
  BY <1>2 DEF Settled, Database

LEMMA RoleTyped ==
    ASSUME NEW d \in Database, NEW p \in People, NEW c \in Clients,
           NEW role \in MemberRoles \union {"none"}
    PROVE  [d EXCEPT !.roles[p][c] = role] \in Database
BY DEF Database

LEMMA AccountTyped ==
    ASSUME NEW d \in Database, NEW p \in People, NEW account \in Account
    PROVE  [d EXCEPT !.users[p] = account] \in Database
BY DEF Database

LEMMA AcceptedTyped ==
    ASSUME NEW d \in Database, NEW i \in d.invitations
    PROVE  Accepted(d, i) \in Database
<1> DEFINE joined == [Settled(d, i, "accepted") EXCEPT !.roles[i.to][i.client] = i.role]
           account == IF d.users[i.to].role = "none"
                      THEN [role |-> i.role, active |-> TRUE, mfa |-> FALSE]
                      ELSE [d.users[i.to] EXCEPT !.active = TRUE]
<1>1. i \in Invitation /\ i.to \in People /\ i.client \in Clients /\ i.role \in MemberRoles
  BY DEF Database, Invitation
<1>2. joined \in Database
  BY <1>1, SettledTyped, RoleTyped
<1>3. d.users[i.to] \in Account
  BY <1>1, TablesTyped
<1>4. account \in Account
  BY <1>1, <1>3 DEF Account
<1> HIDE DEF joined, account
<1>5. Synced(account, RolesIn(joined, i.to)) \in Account
  BY <1>4, SyncedTyped
<1>6. [joined EXCEPT !.users[i.to] = Synced(account, RolesIn(joined, i.to))] \in Database
  BY <1>1, <1>2, <1>5, AccountTyped
<1> QED
  BY <1>1, <1>6, SessionTyped DEF Accepted, joined, account

LEMMA ErasedTyped ==
    ASSUME NEW d \in Database, NEW es
    PROVE  Erased(d, es) \in Database
<1> DEFINE roles == [p \in People |-> [c \in Clients |-> IF c \in es THEN "none" ELSE d.roles[p][c]]]
           invitations == {i \in d.invitations : i.client \notin es}
<1>1. roles \in [People -> [Clients -> MemberRoles \union {"none"}]]
  BY TablesTyped
<1>2. invitations \subseteq Invitation /\ d.live \ Covered(es) \subseteq Entities
  BY TablesTyped
<1>3. Erased(d, es) =
        [d EXCEPT !.live = d.live \ Covered(es), !.roles = roles, !.invitations = invitations]
  BY DEF Erased, Database
<1> HIDE DEF roles, invitations
<1> QED
  BY <1>1, <1>2, <1>3 DEF Database

-----------------------------------------------------------------------------
LEMMA InitTypes == Init => TypeOK
<1> SUFFICES ASSUME Init PROVE TypeOK
  OBVIOUS
<1>1. db \in Database
  BY DEF Init, Database, Account, NoAccount
<1>2. Cardinality(backup) <= 1
  BY FS_EmptySet DEF Init
<1> QED
  BY <1>1, <1>2 DEF Init, TypeOK

\* What changes nothing but the database.
LEMMA DbTypes ==
    ASSUME TypeOK, OnlyDb, db' \in Database
    PROVE  TypeOK'
BY DEF TypeOK, OnlyDb

LEMMA AccountTypes ==
    ASSUME TypeOK, NEW p \in People, Login(p) \/ SetupMfa(p) \/ ConfirmMfa(p)
    PROVE  TypeOK'
<1>1. db \in Database /\ OnlyDb
  BY DEF TypeOK, Login, SetupMfa, ConfirmMfa
<1>2. CASE Login(p)
  BY <1>1, <1>2, SessionTyped, DbTypes DEF Login
<1>3. ASSUME NEW on \in BOOLEAN, db' = [db EXCEPT !.users[p].mfa = on] PROVE TypeOK'
  <2>1. db.users[p] \in Account
    BY <1>1, TablesTyped
  <2>2. [db.users[p] EXCEPT !.mfa = on] \in Account
    BY <2>1 DEF Account
  <2>3. db' = [db EXCEPT !.users[p] = [db.users[p] EXCEPT !.mfa = on]]
    BY <1>1, <1>3 DEF Database
  <2> QED
    BY <1>1, <2>2, <2>3, AccountTyped, DbTypes
<1> QED
  BY <1>2, <1>3 DEF SetupMfa, ConfirmMfa, Login

LEMMA InviteTypes ==
    ASSUME TypeOK, NEW by \in People, NEW to \in People, NEW c \in Clients,
           NEW role \in MemberRoles, Invite(by, to, c, role)
    PROVE  TypeOK'
<1> DEFINE key == CHOOSE k \in FreeKeys : TRUE
           row == [key |-> key, to |-> to, client |-> c, role |-> role, state |-> "open"]
<1>1. db \in Database
  BY DEF TypeOK
<1>2. key \in FreeKeys
  BY DEF Invite
<1> HIDE DEF key
<1>3. key \in Nat
  <2>1. Here.invitations \in Nat
    BY AccessAssumption DEF TypeOK, Here
  <2>2. key \in 1 .. Here.invitations
    BY <1>2 DEF FreeKeys
  <2> QED
    BY <2>1, <2>2
<1>4. row \in Invitation
  BY <1>3 DEF Invitation
<1>5. db' = [db EXCEPT !.invitations = @ \union {row}]
  BY DEF Invite, key
<1>6. db' \in Database
  BY <1>1, <1>4, <1>5 DEF Database
<1>7. appointed' \subseteq People \X Clients
  BY DEF Invite, TypeOK
<1> QED
  BY <1>6, <1>7 DEF Invite, TypeOK

LEMMA InvitationTypes ==
    ASSUME TypeOK, NEW i \in db.invitations, InvitationExpires(i) \/ AcceptInvitation(i)
    PROVE  TypeOK'
<1>1. db \in Database
  BY DEF TypeOK
<1> QED
  BY <1>1, SettledTyped, AcceptedTyped, DbTypes DEF InvitationExpires, AcceptInvitation

LEMMA ReadTypes ==
    ASSUME TypeOK, NEW by \in People, NEW p \in People, NEW c \in Clients,
           NEW role \in MemberRoles \union {"none"}, ReadChange(by, p, c, role)
    PROVE  TypeOK'
<1> DEFINE account == Synced(db.users[p], RolesIn([db EXCEPT !.roles[p][c] = role], p))
           read == [by |-> by, user |-> p, client |-> c, role |-> role, seen |-> db.users[p],
                    account |-> account]
<1>1. db.users[p] \in Account
  BY TablesTyped DEF TypeOK
<1>2. account \in Account
  BY <1>1, SyncedTyped
<1>3. open' = open \union {read}
  BY DEF ReadChange
<1> HIDE DEF account
<1>4. read \in Change
  BY <1>1, <1>2 DEF Change
<1>5. open' \subseteq Change
  BY <1>3, <1>4 DEF TypeOK
<1>6. appointed' \subseteq People \X Clients
  BY DEF ReadChange, TypeOK
<1> QED
  BY <1>5, <1>6 DEF ReadChange, TypeOK

LEMMA WriteTypes ==
    ASSUME TypeOK, NEW r \in open, WriteChange(r)
    PROVE  TypeOK'
<1> DEFINE account == Written(db.users[r.user], r)
           written == [[db EXCEPT !.roles[r.user][r.client] = r.role] EXCEPT !.users[r.user] = account]
<1>1. /\ r \in Change /\ r.user \in People /\ r.client \in Clients
      /\ r.role \in MemberRoles \union {"none"} /\ r.account \in Account
  BY DEF TypeOK, Change
<1>2. db \in Database /\ db.users[r.user] \in Account
  BY <1>1, TablesTyped DEF TypeOK
<1>3. account \in Account
  BY <1>1, <1>2 DEF Written, Account
<1>4. db' = db \/ db' = Revoked(written, r.user)
  <2>1. [db EXCEPT !.roles[r.user][r.client] = r.role, !.users[r.user] = Written(@, r)] = written
    BY <1>1, <1>2 DEF Database
  <2> QED
    BY <2>1 DEF WriteChange
<1> HIDE DEF account
<1>5. written \in Database
  <2>1. [db EXCEPT !.roles[r.user][r.client] = r.role] \in Database
    BY <1>1, <1>2, RoleTyped
  <2> QED
    BY <1>1, <1>3, <2>1, AccountTyped
<1> HIDE DEF written
<1>6. db' \in Database
  BY <1>1, <1>2, <1>4, <1>5, SessionTyped
<1>7. /\ open' = open \ {r}
      /\ UNCHANGED <<world, deleting, ledger, backup, service, given, answered, appointed>>
  BY DEF WriteChange
<1> QED
  BY <1>6, <1>7 DEF TypeOK

LEMMA CreateTypes ==
    ASSUME TypeOK, NEW by \in People, NEW c \in Clients, NEW sites \in SUBSET Websites,
           CreateClient(by, c, sites)
    PROVE  TypeOK'
<1>1. db \in Database /\ {c} \union sites \subseteq Entities
  BY DEF TypeOK, Entities
<1>2. [db EXCEPT !.live = @ \union {c} \union sites] \in Database
  BY <1>1 DEF Database
<1>3. [db EXCEPT !.live = @ \union {c} \union sites, !.roles[by][c] = "admin"] \in Database
  BY <1>1 DEF Database, MemberRoles
<1>4. db' \in Database /\ given' \subseteq Entities /\ appointed' \subseteq People \X Clients
  BY <1>1, <1>2, <1>3 DEF CreateClient, TypeOK
<1> QED
  BY <1>4 DEF CreateClient, TypeOK

LEMMA SiteTypes ==
    ASSUME TypeOK, NEW by \in People, NEW w \in Websites, CreateWebsite(by, w)
    PROVE  TypeOK'
<1>1. db' \in Database /\ given' \subseteq Entities
  BY DEF CreateWebsite, TypeOK, Database, Entities
<1> QED
  BY <1>1 DEF CreateWebsite, TypeOK

LEMMA DeleteTypes ==
    ASSUME TypeOK, NEW by \in People, NEW e \in Entities, Delete(by, e)
    PROVE  TypeOK'
<1>1. db' \in Database
  BY ErasedTyped DEF Delete, TypeOK
<1> QED
  BY <1>1 DEF Delete, TypeOK

LEMMA ServiceTypes ==
    ASSUME TypeOK, Crash \/ TakeBackup \/ Restore \/ ReapplyDeletions
    PROVE  TypeOK'
<1>1. CASE Crash
  BY <1>1 DEF Crash, TypeOK
<1>2. CASE TakeBackup
  <2>1. Cardinality({db}) = 1
    BY FS_Singleton
  <2>2. /\ backup' = {db}
        /\ UNCHANGED <<world, db, open, deleting, ledger, service, given, answered, appointed>>
    BY <1>2 DEF TakeBackup
  <2>3. Cardinality(backup') <= 1
    BY <2>1, <2>2
  <2> QED
    BY <2>2, <2>3 DEF TypeOK
<1>3. CASE Restore
  BY <1>3 DEF Restore, TypeOK
<1>4. CASE ReapplyDeletions
  <2>1. db' \in Database
    BY <1>4, ErasedTyped DEF ReapplyDeletions, Reapplied, TypeOK
  <2> QED
    BY <1>4, <2>1 DEF ReapplyDeletions, TypeOK
<1> QED
  BY <1>1, <1>2, <1>3, <1>4

LEMMA NextTypes ==
    ASSUME TypeOK, [Next]_vars
    PROVE  TypeOK'
<1>0. Here.people \subseteq People
  BY AccessAssumption DEF TypeOK, Here
<1>1. ASSUME NEW by \in People, RequestOf(by) PROVE TypeOK'
  <2>1. {{}} \union {{w} : w \in Websites} \subseteq SUBSET Websites
    OBVIOUS
  <2> QED
    BY <1>0, <1>1, <2>1, AccountTypes, InviteTypes, ReadTypes, CreateTypes, SiteTypes, DeleteTypes
    DEF RequestOf
<1>2. ASSUME NEW s \in db.sessions, Leave(s) PROVE TypeOK'
  <2>1. db' \in Database
    BY <1>2 DEF Leave, TypeOK, Database
  <2> QED
    BY <1>2, <2>1, DbTypes DEF Leave
<1>3. CASE \E i \in db.invitations : InvitationExpires(i) \/ AcceptInvitation(i)
  BY <1>3, InvitationTypes
<1>4. CASE \E r \in open : WriteChange(r)
  BY <1>4, WriteTypes
<1>5. CASE \E e \in deleting : RecordDeletion(e)
  BY <1>5 DEF RecordDeletion, TypeOK
<1>6. CASE Crash \/ TakeBackup \/ Restore \/ ReapplyDeletions
  BY <1>6, ServiceTypes
<1>7. CASE UNCHANGED vars
  BY <1>7 DEF vars, TypeOK
<1> QED
  BY <1>1, <1>2, <1>3, <1>4, <1>5, <1>6, <1>7 DEF Next

\* The rows, the register and the backups have the types of the models, whatever is
\* asked and whenever the process dies or a backup is put back.
THEOREM TypeCorrect == Spec => []TypeOK
<1> QED
  BY InitTypes, NextTypes, PTL DEF Spec

-----------------------------------------------------------------------------
(* Who appoints administrators *)

\* Changes of members do not overlap with other requests.  Where they do, the global
\* role of an account can be written from memberships that are no more.
ChangesAlone ==
    \A i \in DOMAIN Worlds : "change" \in Worlds[i].requests => Worlds[i].overlap = 1

\* Every administrator, and everyone who holds an invitation to become one, was
\* appointed; and the global role is as high as every membership, so that who is no
\* superuser invites no administrators.
Appointed(d) ==
    /\ \A p \in People, c \in Clients : d.roles[p][c] = "admin" =>
           <<p, c>> \in appointed /\ d.users[p].role \in {"admin", "superuser"}
    /\ \A i \in d.invitations : i.role = "admin" => <<i.to, i.client>> \in appointed

\* A change that has read and not written is about the rows as they are.
Follows(r) ==
    /\ r.seen = db.users[r.user]
    /\ r.account = Synced(r.seen, RolesIn([db EXCEPT !.roles[r.user][r.client] = r.role], r.user))
    /\ r.role = "admin" => <<r.user, r.client>> \in appointed

RoleInv ==
    /\ TypeOK
    /\ Appointed(db) /\ \A d \in backup : Appointed(d)
    /\ open # {} => "change" \in Here.requests
    /\ open = {} \/ \E r \in open : open = {r}
    /\ \A r \in open : Follows(r)
    /\ service = "stopped" => open = {}
    /\ IsFiniteSet(deleting)

\* A request is taken only when no change of a member is under way.
LEMMA Alone ==
    ASSUME ChangesAlone, RoleInv, NEW kind, Takes(kind)
    PROVE  open = {}
<1> SUFFICES ASSUME open # {} PROVE FALSE
  OBVIOUS
<1>1. Here.overlap = 1
  BY DEF RoleInv, TypeOK, ChangesAlone, Here
<1>2. Cardinality(open) = 1
  BY FS_Singleton DEF RoleInv
<1>3. Cardinality(deleting) \in Nat
  BY FS_CardinalityType DEF RoleInv
<1> QED
  BY <1>1, <1>2, <1>3 DEF Takes

LEMMA SyncedRole ==
    ASSUME NEW account \in Account, NEW roles
    PROVE  "admin" \in roles => Synced(account, roles).role = "admin"
BY DEF Synced, HighestOf, Account

\* An account whose role follows from its memberships, in a database where all others do.
LEMMA SyncedAppointed ==
    ASSUME NEW d \in Database, NEW e \in Database, NEW p \in People, NEW account \in Account,
           Appointed(d),
           e.users = [d.users EXCEPT ![p] = Synced(account, RolesIn(e, p))],
           \A q \in People, c \in Clients : e.roles[q][c] = "admin" =>
               d.roles[q][c] = "admin" \/ (q = p /\ <<q, c>> \in appointed)
    PROVE  \A q \in People, c \in Clients : e.roles[q][c] = "admin" =>
               <<q, c>> \in appointed /\ e.users[q].role \in {"admin", "superuser"}
<1> SUFFICES ASSUME NEW q \in People, NEW c \in Clients, e.roles[q][c] = "admin"
             PROVE  <<q, c>> \in appointed /\ e.users[q].role \in {"admin", "superuser"}
  OBVIOUS
<1>0. d.users \in [People -> Account]
  BY TablesTyped
<1>1. CASE q = p
  <2>1. "admin" \in RolesIn(e, p)
    BY <1>1 DEF RolesIn
  <2>2. e.users[p].role = "admin"
    BY <1>0, <2>1, SyncedRole
  <2> QED
    BY <1>1, <2>2 DEF Appointed
<1>2. CASE q # p
  BY <1>0, <1>2 DEF Appointed
<1> QED
  BY <1>1, <1>2

LEMMA InitRoles == Init => RoleInv
<1> SUFFICES ASSUME Init PROVE RoleInv
  OBVIOUS
<1>1. IsFiniteSet(deleting)
  BY FS_EmptySet DEF Init
<1>2. TypeOK
  BY InitTypes
<1>3. Appointed(db)
  BY DEF Init, Appointed
<1> QED
  BY <1>1, <1>2, <1>3 DEF Init, RoleInv

\* What changes nothing but the database, while no change of a member is under way.
LEMMA DbRoles ==
    ASSUME RoleInv, TypeOK', OnlyDb, open = {}, Appointed(db')
    PROVE  RoleInv'
BY DEF RoleInv, OnlyDb, Appointed, Here

LEMMA AccountRoles ==
    ASSUME RoleInv, TypeOK', ChangesAlone, NEW p, NEW s, NEW i,
           \/ p \in People /\ (Login(p) \/ SetupMfa(p) \/ ConfirmMfa(p))
           \/ Leave(s)
           \/ i \in db.invitations /\ InvitationExpires(i)
    PROVE  RoleInv'
<1>1. OnlyDb /\ open = {}
  BY Alone DEF Login, SetupMfa, ConfirmMfa, Leave, InvitationExpires
<1>2. db \in Database /\ Appointed(db)
  BY DEF RoleInv, TypeOK
<1>3. CASE Login(p) \/ Leave(s)
  BY <1>1, <1>2, <1>3, DbRoles DEF Login, Leave, WithSession, Appointed, Database
<1>4. CASE p \in People /\ (SetupMfa(p) \/ ConfirmMfa(p))
  <2>1. PICK on \in BOOLEAN : db' = [db EXCEPT !.users[p].mfa = on]
    BY <1>4 DEF SetupMfa, ConfirmMfa
  <2>2. db.users \in [People -> Account]
    BY <1>2, TablesTyped
  <2>3. /\ db'.users = [db.users EXCEPT ![p].mfa = on]
        /\ db'.roles = db.roles /\ db'.invitations = db.invitations
    BY <1>2, <2>1 DEF Database
  <2>4. \A q \in People : db'.users[q].role = db.users[q].role
    BY <2>2, <2>3 DEF Account
  <2> QED
    BY <1>1, <1>2, <2>3, <2>4, DbRoles DEF Appointed
<1>5. CASE i \in db.invitations /\ InvitationExpires(i)
  <2>1. i \in Invitation /\ db' = Settled(db, i, "expired")
    BY <1>2, <1>5 DEF InvitationExpires, Database
  <2>2. /\ db'.users = db.users /\ db'.roles = db.roles
        /\ db'.invitations = (db.invitations \ {i}) \union {[i EXCEPT !.state = "expired"]}
    BY <1>2, <2>1 DEF Settled, Database
  <2>3. LET row == [i EXCEPT !.state = "expired"]
        IN row.role = i.role /\ row.to = i.to /\ row.client = i.client
    BY <2>1 DEF Invitation
  <2>4. Appointed(db')
    <3>1. \A k \in db'.invitations : k.role = "admin" => <<k.to, k.client>> \in appointed
      BY <1>2, <1>5, <2>2, <2>3 DEF Appointed
    <3> QED
      BY <1>1, <1>2, <2>2, <3>1 DEF Appointed, OnlyDb
  <2> QED
    BY <1>1, <2>4, DbRoles
<1> QED
  BY <1>3, <1>4, <1>5

LEMMA AcceptRoles ==
    ASSUME RoleInv, TypeOK', ChangesAlone, NEW i \in db.invitations, AcceptInvitation(i)
    PROVE  RoleInv'
<1> DEFINE joined == [Settled(db, i, "accepted") EXCEPT !.roles[i.to][i.client] = i.role]
           account == IF db.users[i.to].role = "none"
                      THEN [role |-> i.role, active |-> TRUE, mfa |-> FALSE]
                      ELSE [db.users[i.to] EXCEPT !.active = TRUE]
           synced == [joined EXCEPT !.users[i.to] = Synced(account, RolesIn(joined, i.to))]
<1>1. OnlyDb /\ open = {}
  BY Alone DEF AcceptInvitation
<1>2. db \in Database /\ Appointed(db)
  BY DEF RoleInv, TypeOK
<1>3. i \in Invitation /\ i.to \in People /\ i.client \in Clients /\ i.role \in MemberRoles
  BY <1>2 DEF Database, Invitation
<1>4. Settled(db, i, "accepted") \in Database
  BY <1>2, SettledTyped
<1>5. joined \in Database
  BY <1>3, <1>4, RoleTyped
<1>6. account \in Account
  <2>1. db.users[i.to] \in Account
    BY <1>2, <1>3, TablesTyped
  <2> QED
    BY <1>3, <2>1 DEF Account
<1>7. db' = WithSession(synced, i.to)
  BY DEF AcceptInvitation, Accepted
<1>8. /\ joined.users = db.users
      /\ \A q \in People, c \in Clients : joined.roles[q][c] =
             IF q = i.to /\ c = i.client THEN i.role ELSE db.roles[q][c]
      /\ \A k \in joined.invitations : \E l \in db.invitations :
             k.role = l.role /\ k.to = l.to /\ k.client = l.client
  BY <1>2, <1>3, <1>4 DEF Settled, Database, Invitation
<1> HIDE DEF joined, account
<1>9. /\ synced \in Database /\ synced.roles = joined.roles
      /\ synced.users = [db.users EXCEPT ![i.to] = Synced(account, RolesIn(synced, i.to))]
      /\ synced.invitations = joined.invitations
  <2>1. Synced(account, RolesIn(joined, i.to)) \in Account
    BY <1>6, SyncedTyped
  <2>2. synced \in Database
    BY <1>3, <1>5, <2>1, AccountTyped
  <2>3. /\ synced.roles = joined.roles /\ synced.invitations = joined.invitations
        /\ synced.users = [joined.users EXCEPT ![i.to] = Synced(account, RolesIn(joined, i.to))]
    BY <1>5 DEF Database
  <2>4. RolesIn(synced, i.to) = RolesIn(joined, i.to)
    BY <2>3 DEF RolesIn
  <2> QED
    BY <1>8, <2>2, <2>3, <2>4
<1> HIDE DEF synced
<1>10. Appointed(synced)
  <2>1. \A q \in People, c \in Clients : synced.roles[q][c] = "admin" =>
             db.roles[q][c] = "admin" \/ (q = i.to /\ <<q, c>> \in appointed)
    BY <1>2, <1>8, <1>9 DEF Appointed
  <2>2. \A q \in People, c \in Clients : synced.roles[q][c] = "admin" =>
             <<q, c>> \in appointed /\ synced.users[q].role \in {"admin", "superuser"}
    BY <1>2, <1>3, <1>6, <1>9, <2>1, SyncedAppointed
  <2> QED
    BY <1>2, <1>8, <1>9, <2>2 DEF Appointed
<1>11. Appointed(db')
  BY <1>7, <1>9, <1>10 DEF WithSession, Appointed, Database
<1> QED
  BY <1>1, <1>11, DbRoles

\* What makes more people administrators, and leaves the invitations and the changes alone.
LEMMA MayManageAs ==
    ASSUME RoleInv, NEW by \in People, NEW c \in Clients, MayManage(by, c)
    PROVE  db.users[by].role \in {"superuser", "admin"}
BY DEF RoleInv, Appointed, MayManage

LEMMA InviteRoles ==
    ASSUME RoleInv, TypeOK', ChangesAlone, NEW by \in People, NEW to \in People, NEW c \in Clients,
           NEW role \in MemberRoles, Invite(by, to, c, role)
    PROVE  RoleInv'
<1>1. open = {} /\ appointed \subseteq appointed'
      /\ UNCHANGED <<world, open, deleting, backup, service>>
  BY Alone DEF Invite
<1>2. role = "admin" => <<to, c>> \in appointed'
  <2>1. role = "admin" => db.users[by].role = "superuser"
    BY MayManageAs DEF Invite
  <2> QED
    BY <2>1 DEF Invite
<1>3. Appointed(db)'
  <2>1. db \in Database /\ Appointed(db)
    BY DEF RoleInv, TypeOK
  <2> DEFINE row == [key |-> CHOOSE k \in FreeKeys : TRUE, to |-> to, client |-> c, role |-> role,
                     state |-> "open"]
  <2>2. /\ db' = [db EXCEPT !.invitations = @ \union {row}]
        /\ row.to = to /\ row.client = c /\ row.role = role
    BY DEF Invite
  <2> HIDE DEF row
  <2>3. /\ db'.users = db.users /\ db'.roles = db.roles
        /\ db'.invitations = db.invitations \union {row}
    BY <2>1, <2>2 DEF Database
  <2> QED
    BY <1>1, <1>2, <2>1, <2>2, <2>3 DEF Appointed
<1>4. \A d \in backup' : Appointed(d)'
  BY <1>1 DEF RoleInv, Appointed
<1> QED
  BY <1>1, <1>3, <1>4 DEF RoleInv, Here

LEMMA ReadRoles ==
    ASSUME RoleInv, TypeOK', ChangesAlone, NEW by \in People, NEW p \in People, NEW c \in Clients,
           NEW role \in MemberRoles \union {"none"}, ReadChange(by, p, c, role)
    PROVE  RoleInv'
<1> DEFINE account == Synced(db.users[p], RolesIn([db EXCEPT !.roles[p][c] = role], p))
           read == [by |-> by, user |-> p, client |-> c, role |-> role, seen |-> db.users[p],
                    account |-> account]
<1>1. /\ open = {} /\ appointed \subseteq appointed' /\ "change" \in Here.requests
      /\ service = "up" /\ UNCHANGED <<world, db, deleting, backup, service>> /\ open' = {read}
  BY Alone DEF ReadChange, Takes
<1>2. role = "admin" => <<p, c>> \in appointed'
  <2>1. CASE db.roles[p][c] = "admin"
    BY <1>1, <2>1 DEF RoleInv, Appointed
  <2>2. CASE db.roles[p][c] # "admin"
    BY <2>2 DEF ReadChange
  <2> QED
    BY <2>1, <2>2
<1>3. \A r \in open' : Follows(r)'
  <2> SUFFICES ASSUME NEW r \in open' PROVE Follows(r)'
    OBVIOUS
  <2>1. /\ r.user = p /\ r.client = c /\ r.role = role /\ r.seen = db.users[p]
        /\ r.account = account
    BY <1>1
  <2> QED
    BY <1>1, <1>2, <2>1 DEF Follows
<1>4. Appointed(db)' /\ \A d \in backup' : Appointed(d)'
  BY <1>1 DEF RoleInv, Appointed
<1> QED
  BY <1>1, <1>3, <1>4 DEF RoleInv, Here

LEMMA WriteRoles ==
    ASSUME RoleInv, TypeOK', NEW r \in open, WriteChange(r)
    PROVE  RoleInv'
<1> DEFINE changed == [db EXCEPT !.roles[r.user][r.client] = r.role]
           written == [changed EXCEPT !.users[r.user] = r.account]
<1>1. /\ r \in Change /\ r.user \in People /\ r.client \in Clients
      /\ r.role \in MemberRoles \union {"none"} /\ r.account \in Account /\ r.seen \in Account
  BY DEF RoleInv, TypeOK, Change
<1>2. db \in Database /\ Appointed(db) /\ Follows(r)
  BY DEF RoleInv, TypeOK
<1>3. /\ open' = {} /\ UNCHANGED <<world, deleting, backup, service, appointed>>
  BY DEF WriteChange, RoleInv
<1>4. Written(db.users[r.user], r) = r.account
  <2>1. r.seen = db.users[r.user] /\ r.account.mfa = r.seen.mfa
    BY <1>1, <1>2 DEF Follows, Synced, Account
  <2>2. Written(r.seen, r) = [r.seen EXCEPT !.role = r.account.role, !.active = r.account.active]
    BY <1>1 DEF Written, Account
  <2> QED
    BY <1>1, <2>1, <2>2 DEF Account
<1>5. db' = db \/ db' = Revoked(written, r.user)
  <2>1. [db EXCEPT !.roles[r.user][r.client] = r.role, !.users[r.user] = Written(@, r)] = written
    BY <1>1, <1>2, <1>4 DEF Database
  <2> QED
    BY <2>1 DEF WriteChange
<1>6. changed \in Database
  BY <1>1, <1>2, RoleTyped
<1>7. /\ changed.users = db.users /\ changed.invitations = db.invitations
      /\ \A q \in People, c \in Clients : changed.roles[q][c] =
             IF q = r.user /\ c = r.client THEN r.role ELSE db.roles[q][c]
  BY <1>1, <1>2 DEF Database
<1>8. r.account = Synced(r.seen, RolesIn(changed, r.user))
  BY <1>2 DEF Follows
<1> HIDE DEF changed
<1>9. /\ written \in Database /\ written.roles = changed.roles
      /\ written.users = [db.users EXCEPT ![r.user] = Synced(r.seen, RolesIn(written, r.user))]
      /\ written.invitations = db.invitations
  <2>1. written \in Database
    BY <1>1, <1>6, AccountTyped
  <2>2. /\ written.roles = changed.roles /\ written.invitations = changed.invitations
        /\ written.users = [changed.users EXCEPT ![r.user] = r.account]
    BY <1>6 DEF Database
  <2>3. RolesIn(written, r.user) = RolesIn(changed, r.user)
    BY <2>2 DEF RolesIn
  <2> QED
    BY <1>7, <1>8, <2>1, <2>2, <2>3
<1> HIDE DEF written
<1>10. Appointed(written)
  <2>1. \A q \in People, c \in Clients : written.roles[q][c] = "admin" =>
             db.roles[q][c] = "admin" \/ (q = r.user /\ <<q, c>> \in appointed)
    BY <1>2, <1>7, <1>9 DEF Follows
  <2>2. \A q \in People, c \in Clients : written.roles[q][c] = "admin" =>
             <<q, c>> \in appointed /\ written.users[q].role \in {"admin", "superuser"}
    BY <1>1, <1>2, <1>9, <2>1, SyncedAppointed
  <2> QED
    BY <1>2, <1>9, <2>2 DEF Appointed
<1>11. Appointed(db)'
  BY <1>2, <1>3, <1>5, <1>9, <1>10 DEF Revoked, Appointed, Database
<1> QED
  BY <1>3, <1>11 DEF RoleInv, Appointed, Here

LEMMA CreateRoles ==
    ASSUME RoleInv, TypeOK', ChangesAlone, NEW by \in People, NEW c, NEW w, NEW sites,
           (c \in Clients /\ CreateClient(by, c, sites)) \/ CreateWebsite(by, w)
    PROVE  RoleInv'
<1>1. open = {} /\ appointed \subseteq appointed'
      /\ UNCHANGED <<world, open, deleting, backup, service>>
  BY Alone DEF CreateClient, CreateWebsite
<1>2. db \in Database /\ Appointed(db)
  BY DEF RoleInv, TypeOK
<1>3. Appointed(db)'
  <2>1. CASE CreateWebsite(by, w)
    BY <1>2, <2>1 DEF CreateWebsite, Database, Appointed
  <2>2. CASE c \in Clients /\ CreateClient(by, c, sites) /\ db.users[by].role = "superuser"
    BY <1>2, <2>2 DEF CreateClient, Database, Appointed
  <2>3. CASE c \in Clients /\ CreateClient(by, c, sites) /\ db.users[by].role # "superuser"
    <3>1. /\ db' = [db EXCEPT !.live = @ \union {c} \union sites, !.roles[by][c] = "admin"]
          /\ appointed' = appointed \union {<<by, c>>} /\ db.users[by].role = "admin"
      BY <2>3 DEF CreateClient
    <3>2. /\ db'.users = db.users /\ db'.invitations = db.invitations
          /\ \A q \in People, d \in Clients : db'.roles[q][d] =
                IF q = by /\ d = c THEN "admin" ELSE db.roles[q][d]
      BY <1>2, <3>1 DEF Database
    <3> QED
      BY <1>2, <3>1, <3>2 DEF Appointed
  <2> QED
    BY <2>1, <2>2, <2>3
<1>4. \A d \in backup' : Appointed(d)'
  BY <1>1 DEF RoleInv, Appointed
<1> QED
  BY <1>1, <1>3, <1>4 DEF RoleInv, Here

\* A deletion takes memberships and invitations away and gives none.
LEMMA ErasedAppointed ==
    ASSUME NEW d \in Database, NEW es, Appointed(d)
    PROVE  Appointed(Erased(d, es))
<1>1. /\ Erased(d, es).users = d.users /\ Erased(d, es).invitations \subseteq d.invitations
      /\ \A p \in People, c \in Clients : Erased(d, es).roles[p][c] =
             IF c \in es THEN "none" ELSE d.roles[p][c]
  BY DEF Erased, Database
<1> QED
  BY <1>1 DEF Appointed

LEMMA DeletionRoles ==
    ASSUME RoleInv, TypeOK', ChangesAlone, NEW by, NEW e,
           Delete(by, e) \/ RecordDeletion(e)
    PROVE  RoleInv'
<1>1. CASE Delete(by, e)
  <2>1. /\ open = {} /\ UNCHANGED <<world, open, backup, service, appointed>>
        /\ db' = Erased(db, {e}) /\ deleting' = deleting \union {e}
    BY <1>1, Alone DEF Delete
  <2>2. Appointed(db')
    BY <2>1, ErasedAppointed DEF RoleInv, TypeOK
  <2>3. IsFiniteSet(deleting')
    BY <2>1, FS_AddElement DEF RoleInv
  <2> QED
    BY <2>1, <2>2, <2>3 DEF RoleInv, Appointed, Here
<1>2. CASE RecordDeletion(e)
  <2>1. UNCHANGED <<world, db, open, backup, service, appointed>> /\ deleting' = deleting \ {e}
    BY <1>2 DEF RecordDeletion
  <2>2. IsFiniteSet(deleting')
    BY <2>1, FS_RemoveElement DEF RoleInv
  <2> QED
    BY <2>1, <2>2 DEF RoleInv, Appointed, Follows, Here
<1> QED
  BY <1>1, <1>2

LEMMA ServiceRoles ==
    ASSUME RoleInv, TypeOK', Crash \/ TakeBackup \/ Restore \/ ReapplyDeletions
    PROVE  RoleInv'
<1>0. IsFiniteSet({})
  BY FS_EmptySet
<1>1. CASE Crash
  BY <1>0, <1>1 DEF Crash, RoleInv, Appointed, Here
<1>2. CASE TakeBackup
  BY <1>2 DEF TakeBackup, RoleInv, Appointed, Follows, Here
<1>3. CASE Restore
  BY <1>0, <1>3 DEF Restore, RoleInv, Appointed, Here
<1>4. CASE ReapplyDeletions
  <2>1. Appointed(db')
    BY <1>4, ErasedAppointed DEF ReapplyDeletions, Reapplied, RoleInv, TypeOK
  <2> QED
    BY <1>4, <2>1 DEF ReapplyDeletions, RoleInv, Appointed, Here
<1> QED
  BY <1>1, <1>2, <1>3, <1>4

LEMMA NextRoles ==
    ASSUME RoleInv, [Next]_vars, ChangesAlone
    PROVE  RoleInv'
<1>0. TypeOK'
  BY NextTypes DEF RoleInv
<1>1. ASSUME NEW by \in People, RequestOf(by) PROVE RoleInv'
  <2>1. {{}} \union {{w} : w \in Websites} \subseteq SUBSET Websites /\ Here.people \subseteq People
    BY AccessAssumption DEF RoleInv, TypeOK, Here
  <2>2. CASE Login(by) \/ SetupMfa(by) \/ ConfirmMfa(by)
    BY <1>0, <2>2, AccountRoles
  <2> QED
    BY <1>0, <1>1, <2>1, <2>2, InviteRoles, ReadRoles, CreateRoles, DeletionRoles DEF RequestOf
<1>2. CASE \E s \in db.sessions : Leave(s)
  BY <1>0, <1>2, AccountRoles
<1>3. CASE \E i \in db.invitations : InvitationExpires(i) \/ AcceptInvitation(i)
  BY <1>0, <1>3, AccountRoles, AcceptRoles
<1>4. CASE \E r \in open : WriteChange(r)
  BY <1>0, <1>4, WriteRoles
<1>5. CASE \E e \in deleting : RecordDeletion(e)
  BY <1>0, <1>5, DeletionRoles
<1>6. CASE Crash \/ TakeBackup \/ Restore \/ ReapplyDeletions
  BY <1>0, <1>6, ServiceRoles
<1>7. CASE UNCHANGED vars
  BY <1>0, <1>7 DEF vars, RoleInv, Appointed, Follows, Here
<1> QED
  BY <1>1, <1>2, <1>3, <1>4, <1>5, <1>6, <1>7 DEF Next

\* Where changes of members do not overlap, whoever administers a client was appointed
\* by the superuser or created the client, whatever is invited, accepted, changed,
\* deleted or restored: an invitation to administer comes from the superuser only.
THEOREM SuperuserAppoints ==
    ASSUME ChangesAlone
    PROVE  Spec => []AppointedBySuperuser
<1>1. RoleInv => AppointedBySuperuser
  BY DEF RoleInv, Appointed, AppointedBySuperuser
<1>2. RoleInv /\ [Next]_vars => RoleInv'
  BY NextRoles
<1> QED
  BY <1>1, <1>2, InitRoles, PTL DEF Spec
=============================================================================
