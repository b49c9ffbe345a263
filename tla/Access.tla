------------------------------- MODULE Access -------------------------------
(***************************************************************************)
(* Who may do what: accounts, memberships of clients, invitations, sessions *)
(* and second factors (api/routes/users.py, api/routes/ui.py, core/         *)
(* security.py), the clients and websites they manage, and the register of  *)
(* deletions that is applied again after a restore.                         *)
(*                                                                         *)
(* A request is one action, except those whose parts another request or a   *)
(* crash can come between: a change of a member reads who is left and       *)
(* writes later, a deletion commits before it is written to the register.   *)
(* At most Here.overlap requests are under way at once.                     *)
(*                                                                         *)
(* Abstractions.  A person is an e-mail address; its password and codes are *)
(* right or the request has no effect.  Sessions of a person that live      *)
(* equally long are one.  Names, references, settings, the audit rows and   *)
(* the technical key (refused in production) are left out.                  *)
(***************************************************************************)
EXTENDS Naturals, FiniteSets

CONSTANTS
    People,     \* e-mail addresses
    Root,       \* INITIAL_SUPERUSER_EMAIL
    Clients,
    Websites,
    OwnerOf,    \* the client of a website
    Worlds      \* a sequence: who and what takes part, and how many requests overlap

ASSUME AccessAssumption ==
    /\ Root \in People
    /\ OwnerOf \in [Websites -> Clients]
    /\ "" \notin Clients \union Websites
    /\ Clients \intersect Websites = {}
    /\ \A i \in DOMAIN Worlds :
         Worlds[i].people \subseteq People /\ Worlds[i].invitations \in Nat /\ Worlds[i].overlap \in Nat

VARIABLES
    world,      \* index of the world
    db,         \* the database
    open,       \* changes of members that have read and not written
    deleting,   \* deletions committed and not yet in the register
    ledger,     \* the register of deletions, outside the database
    backup,     \* the newest backup of the database, once there is one
    service,    \* "up", "crashed", or "stopped" with a restored database
    \* for the properties:
    given,      \* identifiers ever given to a client or website
    answered,   \* deletions that were answered with success
    appointed   \* who was made an administrator of what by the superuser or as its creator

vars == <<world, db, open, deleting, ledger, backup, service, given, answered, appointed>>

MemberRoles == {"admin", "user", "client"}
Entities == Clients \union Websites
Here == Worlds[world]

Account ==
    [role : MemberRoles \union {"superuser", "none"}, active : BOOLEAN, mfa : BOOLEAN]
NoAccount == [role |-> "none", active |-> FALSE, mfa |-> FALSE]

Invitation ==
    [key : Nat, to : People, client : Clients, role : MemberRoles,
     state : {"open", "accepted", "expired"}]

Session == [user : People, ttl : {"admin", "user"}]

Database ==
    [users : [People -> Account],
     roles : [People -> [Clients -> MemberRoles \union {"none"}]],
     live : SUBSET Entities,
     invitations : SUBSET Invitation,
     sessions : SUBSET Session]

-----------------------------------------------------------------------------
(* Accounts and access *)

\* session_ttl_seconds: administrators are signed in for two hours, others for twelve.
TtlOf(role) == IF role \in {"superuser", "admin"} THEN "admin" ELSE "user"

\* create_session_token.
WithSession(d, p) == [d EXCEPT !.sessions = @ \union {[user |-> p, ttl |-> TtlOf(d.users[p].role)]}]

\* revoke_user_sessions.
Revoked(d, p) == [d EXCEPT !.sessions = {s \in @ : s.user # p}]

\* require_api_key: a session of an account that is active.
SignedIn(p) == db.users[p].active /\ \E s \in db.sessions : s.user = p

\* redirect_proxied_http_to_https: an administrator needs the second factor for
\* everything but its own account (session_requires_mfa).
MaySend(p) ==
    /\ SignedIn(p)
    /\ db.users[p].role \in {"superuser", "admin"} => db.users[p].mfa

\* require_client_access with admin: the role of the membership counts.
MayManage(p, c) ==
    /\ MaySend(p)
    /\ db.users[p].role = "superuser" \/ db.roles[p][c] = "admin"

RolesIn(d, p) == {d.roles[p][c] : c \in Clients} \ {"none"}

\* Variant: the lowest role counts.
LowestOf(roles, old) ==
    CASE "client" \in roles -> "client"
      [] "client" \notin roles /\ "user" \in roles -> "user"
      [] roles = {"admin"} -> "admin"
      [] OTHER -> old

\* _sync_global_role: the highest role of the memberships, also for the superuser.
HighestOf(roles, old) ==
    CASE "admin" \in roles -> "admin"
      [] "admin" \notin roles /\ "user" \in roles -> "user"
      [] roles = {"client"} -> "client"
      [] OTHER -> old

Synced(account, roles) ==
    [account EXCEPT !.active = roles # {}, !.role = HighestOf(roles, @)]

AdminsOf(d, c) == {p \in People : d.roles[p][c] = "admin"}

\* _require_remaining_admin.
LeavesAdmin(d, p, c) == d.roles[p][c] = "admin" => Cardinality(AdminsOf(d, c)) > 1

-----------------------------------------------------------------------------
\* ensure_initial_superuser: the first start makes the account of the superuser.
Init ==
    /\ world \in DOMAIN Worlds
    /\ db = [users |-> [p \in People |->
                          IF p = Root THEN [role |-> "superuser", active |-> TRUE, mfa |-> FALSE]
                          ELSE NoAccount],
             roles |-> [p \in People |-> [c \in Clients |-> "none"]],
             live |-> {},
             invitations |-> {},
             sessions |-> {}]
    /\ open = {}
    /\ deleting = {}
    /\ ledger = {}
    /\ backup = {}
    /\ service = "up"
    /\ given = {}
    /\ answered = {}
    /\ appointed = {}

\* The service takes a request of a kind that takes part in this world.
Takes(request) ==
    /\ service = "up"
    /\ Cardinality(open) + Cardinality(deleting) < Here.overlap
    /\ request \in Here.requests

OnlyDb == UNCHANGED <<world, open, deleting, ledger, backup, service, given, answered, appointed>>

\* login: right password and, when it is on, the right code.
Login(p) ==
    /\ Takes("sign in")
    /\ db.users[p].active
    /\ db' = WithSession(db, p)
    /\ OnlyDb

\* logout, or the end of the session.
Leave(s) ==
    /\ Takes("leave")
    /\ db' = [db EXCEPT !.sessions = @ \ {s}]
    /\ OnlyDb

\* setup_mfa: a new secret switches the second factor off until it is confirmed.
SetupMfa(p) ==
    /\ Takes("second factor")
    /\ SignedIn(p)
    /\ db' = [db EXCEPT !.users[p].mfa = FALSE]
    /\ OnlyDb

\* confirm_mfa.
ConfirmMfa(p) ==
    /\ Takes("sign in")
    /\ SignedIn(p)
    /\ db' = [db EXCEPT !.users[p].mfa = TRUE]
    /\ OnlyDb

\* The rows of invitations of this world are numbered.
FreeKeys == (1 .. Here.invitations) \ {i.key : i \in db.invitations}

\* create_invitation: an administrator invites no other administrator.  The rows of
\* one address and client may be many.
Invite(by, to, c, role) ==
    /\ Takes("invite")
    /\ FreeKeys # {}
    /\ role \in Here.roles
    /\ c \in db.live
    /\ MayManage(by, c)
    /\ db.users[by].role = "admin" => role # "admin"
    /\ db.roles[to][c] = "none"
    /\ db' = [db EXCEPT !.invitations = @ \union
                 {[key |-> CHOOSE k \in FreeKeys : TRUE, to |-> to, client |-> c, role |-> role,
                   state |-> "open"]}]
    /\ appointed' = IF role = "admin" /\ db.users[by].role = "superuser"
                    THEN appointed \union {<<to, c>>} ELSE appointed
    /\ UNCHANGED <<world, open, deleting, ledger, backup, service, given, answered>>

\* The row of the invitation in its new state.
Settled(d, i, state) == [d EXCEPT !.invitations = (@ \ {i}) \union {[i EXCEPT !.state = state]}]

\* _valid_invitation: seven days have passed.
InvitationExpires(i) ==
    /\ Takes("expire")
    /\ i.state = "open"
    /\ db' = Settled(db, i, "expired")
    /\ OnlyDb

\* accept_invitation: the account is made or made active again, gets the membership
\* and the highest of its roles, and is signed in.
Accepted(d, i) ==
    LET joined == [Settled(d, i, "accepted") EXCEPT !.roles[i.to][i.client] = i.role]
        account == IF d.users[i.to].role = "none"
                   THEN [role |-> i.role, active |-> TRUE, mfa |-> FALSE]
                   ELSE [d.users[i.to] EXCEPT !.active = TRUE]
    IN WithSession([joined EXCEPT !.users[i.to] = Synced(account, RolesIn(joined, i.to))], i.to)

AcceptInvitation(i) ==
    /\ Takes("invite")
    /\ i.state = "open"
    /\ i.client \in db.live
    /\ db.roles[i.to][i.client] = "none"
    /\ db' = Accepted(db, i)
    /\ OnlyDb

-----------------------------------------------------------------------------
(* Members *)

\* update_client_member and delete_client_member ("none") read: who asks, what the
\* member is, whether an administrator remains, and the account that follows from the
\* memberships.
ReadChange(by, p, c, role) ==
    /\ Takes("change")
    /\ role \in Here.roles \union {"none"}
    /\ c \in db.live
    /\ MayManage(by, c)
    /\ by # p
    /\ db.roles[p][c] # "none"
    /\ db.users[p].role # "superuser"
    /\ (role = "admin" /\ db.roles[p][c] # "admin") => db.users[by].role = "superuser"
    /\ role # "admin" => LeavesAdmin(db, p, c)
    /\ open' = open \union
         {[by |-> by, user |-> p, client |-> c, role |-> role, seen |-> db.users[p],
           account |-> Synced(db.users[p], RolesIn([db EXCEPT !.roles[p][c] = role], p))]}
    /\ appointed' = IF role = "admin" /\ db.users[by].role = "superuser"
                    THEN appointed \union {<<p, c>>} ELSE appointed
    /\ UNCHANGED <<world, db, deleting, ledger, backup, service, given, answered>>

\* Only the columns that changed since they were read are written.
Written(now, r) ==
    [now EXCEPT !.role = IF r.account.role = r.seen.role THEN @ ELSE r.account.role,
                !.active = IF r.account.active = r.seen.active THEN @ ELSE r.account.active]

\* An update of a row that is gone fails; a deletion of one does not.
WriteChange(r) ==
    /\ service = "up"
    /\ open' = open \ {r}
    /\ db' = IF r.role # "none" /\ db.roles[r.user][r.client] = "none" THEN db
             ELSE Revoked([db EXCEPT !.roles[r.user][r.client] = r.role,
                                     !.users[r.user] = Written(@, r)], r.user)
    /\ UNCHANGED <<world, deleting, ledger, backup, service, given, answered, appointed>>

-----------------------------------------------------------------------------
(* Clients and websites *)

\* create_client, and onboard_client with a first website: who creates a client is
\* its administrator.
CreateClient(by, c, sites) ==
    /\ Takes("create")
    /\ c \in Here.clients \ given
    /\ MaySend(by)
    /\ db.users[by].role \in {"superuser", "admin"}
    /\ \A w \in sites : OwnerOf[w] = c /\ w \notin given
    /\ given' = given \union {c} \union sites
    /\ IF db.users[by].role = "superuser"
       THEN /\ db' = [db EXCEPT !.live = @ \union {c} \union sites]
            /\ UNCHANGED appointed
       ELSE /\ db' = [db EXCEPT !.live = @ \union {c} \union sites, !.roles[by][c] = "admin"]
            /\ appointed' = appointed \union {<<by, c>>}
    /\ UNCHANGED <<world, open, deleting, ledger, backup, service, answered>>

\* create_website.
CreateWebsite(by, w) ==
    /\ Takes("create")
    /\ w \notin given
    /\ OwnerOf[w] \in db.live
    /\ MayManage(by, OwnerOf[w])
    /\ given' = given \union {w}
    /\ db' = [db EXCEPT !.live = @ \union {w}]
    /\ UNCHANGED <<world, open, deleting, ledger, backup, service, answered, appointed>>

\* A client goes with its websites.
Covered(es) == es \union {w \in Websites : OwnerOf[w] \in es}

\* The rows that go with clients and websites, by the cascades of the database:
\* memberships and invitations too, but no account is synchronised.
Erased(d, es) ==
    [d EXCEPT !.live = @ \ Covered(es),
              !.roles = [p \in People |-> [c \in Clients |-> IF c \in es THEN "none" ELSE @[p][c]]],
              !.invitations = {i \in @ : i.client \notin es}]

ClientOf(e) == IF e \in Websites THEN OwnerOf[e] ELSE e

\* delete_client and delete_website commit the deletion ...
Delete(by, e) ==
    /\ Takes("delete")
    /\ e \in db.live
    /\ MayManage(by, ClientOf(e))
    /\ db' = Erased(db, {e})
    /\ deleting' = deleting \union {e}
    /\ UNCHANGED <<world, open, ledger, backup, service, given, answered, appointed>>

\* Variant: the register is opened for writing, not for appending.
RecordOnlyDeletion(e) ==
    /\ service = "up"
    /\ deleting' = deleting \ {e}
    /\ ledger' = {e}
    /\ answered' = answered \union {e}
    /\ UNCHANGED <<world, db, open, backup, service, given, appointed>>

\* ... and record_privacy_deletion follows, before the answer.
RecordDeletion(e) ==
    /\ service = "up"
    /\ deleting' = deleting \ {e}
    /\ ledger' = ledger \union {e}
    /\ answered' = answered \union {e}
    /\ UNCHANGED <<world, db, open, backup, service, given, appointed>>

\* The process dies with the requests it served, and is started again.
Crash ==
    /\ service = "up"
    /\ open \union deleting # {}
    /\ "crash" \in Here.requests
    /\ open' = {}
    /\ deleting' = {}
    /\ UNCHANGED <<world, db, ledger, backup, service, given, answered, appointed>>

-----------------------------------------------------------------------------
(* Backup and restore *)

\* backup.sh takes a consistent copy of the database while the service runs.
TakeBackup ==
    /\ service = "up"
    /\ "restore" \in Here.requests
    /\ backup' = {db}
    /\ UNCHANGED <<world, db, open, deleting, ledger, service, given, answered, appointed>>

\* restore.sh stops the writers and puts the copy back ...
Restore ==
    /\ service = "up"
    /\ db' \in backup
    /\ service' = "stopped"
    /\ open' = {}
    /\ deleting' = {}
    /\ UNCHANGED <<world, ledger, backup, given, answered, appointed>>

\* Variant: only the clients of the register are deleted again.
ReappliedClients(d) == Erased(d, ledger \intersect Clients \intersect d.live)

\* apply_privacy_deletions: every entity of the register that the copy brought back.
Reapplied(d) == Erased(d, ledger \intersect d.live)

\* ... and applies the register before the service starts.
ReapplyDeletions ==
    /\ service = "stopped"
    /\ db' = Reapplied(db)
    /\ service' = "up"
    /\ UNCHANGED <<world, open, deleting, ledger, backup, given, answered, appointed>>

-----------------------------------------------------------------------------
RequestOf(by) ==
    \/ Login(by) \/ SetupMfa(by) \/ ConfirmMfa(by)
    \/ \E to \in Here.people, c \in Clients, role \in MemberRoles : Invite(by, to, c, role)
    \/ \E p \in People, c \in Clients, role \in MemberRoles \union {"none"} : ReadChange(by, p, c, role)
    \/ \E c \in Clients, sites \in {{}} \union {{w} : w \in Websites} : CreateClient(by, c, sites)
    \/ \E w \in Websites : CreateWebsite(by, w)
    \/ \E e \in Entities : Delete(by, e)

Next ==
    \/ \E by \in People : RequestOf(by)
    \/ \E s \in db.sessions : Leave(s)
    \/ \E i \in db.invitations : InvitationExpires(i) \/ AcceptInvitation(i)
    \/ \E r \in open : WriteChange(r)
    \/ \E e \in deleting : RecordDeletion(e)
    \/ Crash \/ TakeBackup \/ Restore \/ ReapplyDeletions

Spec == Init /\ [][Next]_vars

-----------------------------------------------------------------------------
(* Properties *)

Change ==
    [by : People, user : People, client : Clients, role : MemberRoles \union {"none"},
     seen : Account, account : Account]

\* The rows have the types that the models and schemas give them.
TypeOK ==
    /\ world \in DOMAIN Worlds
    /\ db \in Database
    /\ open \subseteq Change
    /\ deleting \subseteq Entities
    /\ ledger \subseteq Entities
    /\ backup \subseteq Database /\ Cardinality(backup) <= 1
    /\ service \in {"up", "stopped"}
    /\ given \subseteq Entities
    /\ answered \subseteq ledger
    /\ appointed \subseteq People \X Clients

\* Whoever administers a client was made its administrator by the superuser or created
\* it, whatever invitations, promotions and removals went before: administrators make
\* no other administrators (create_invitation looks at the global role, which
\* _sync_global_role must keep as high as every membership).
AppointedBySuperuser ==
    \A p \in People, c \in Clients : db.roles[p][c] = "admin" => <<p, c>> \in appointed

\* A client that has an administrator keeps one until it is deleted
\* (_require_remaining_admin).
AdminKept ==
    [][\A c \in Clients :
          (AdminsOf(db, c) # {} /\ {service, service'} = {"up"} /\ c \in db'.live)
              => AdminsOf(db', c) # {}]_vars

\* What was deleted stays deleted while the service runs, with the websites of a
\* deleted client, also after an older backup was put back (apply_privacy_deletions).
DeletedStaysDeleted ==
    service = "up" => db.live \intersect Covered(answered) = {}
=============================================================================
