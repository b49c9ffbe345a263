------------------------------ MODULE MCAccess ------------------------------
(***************************************************************************)
(* Three people and two clients for TLC; each world lets one kind of        *)
(* request happen often.                                                    *)
(***************************************************************************)
EXTENDS Access

MCOwnerOf == [shop |-> "acme", blog |-> "acme", site |-> "bolt"]

World(requests, people, roles, clients, invitations, overlap) ==
    [requests |-> requests, people |-> people, roles |-> roles, clients |-> clients,
     invitations |-> invitations, overlap |-> overlap]

Always == {"sign in", "invite", "create"}

\* Two administrators, and members who change places.
Team == World(Always \union {"change"}, {"ann", "bob"}, {"admin", "user"}, {"acme"}, 2, 1)
\* One person of two clients, whose roles change one after the other.
Moved == World(Always \union {"change"}, {"ann"}, {"admin", "client"}, {"acme", "bolt"}, 2, 1)
\* People of two clients who invite each other.
Shared == World(Always, {"ann", "bob"}, {"admin", "client"}, {"acme", "bolt"}, 3, 1)
\* The superuser joins a client.
Joined ==
    World(Always \union {"change", "expire", "leave", "second factor"}, {"root", "ann"}, {"user", "client"},
          {"acme"}, 2, 1)
\* Deletions that overlap, backups and restores.
Erasure == World(Always \union {"delete", "restore", "crash"}, {"ann"}, {"admin"}, {"acme"}, 1, 2)
\* A backup holds members and invitations that are gone.
Restored == World(Always \union {"change", "restore", "crash"}, {"ann", "bob"}, {"admin"}, {"acme"}, 2, 1)

MCWorlds == <<Team, Moved, Shared, Joined, Erasure, Restored>>
MCRaces == <<[Team EXCEPT !.overlap = 2]>>
=============================================================================
