------------------------------ MODULE MCAdmin ------------------------------
(***************************************************************************)
(* Scenarios of Admin for TLC.                                             *)
(***************************************************************************)
EXTENDS Admin, TLC

CONSTANTS c1, c2, k1, k2, root, ann, p1, p2

AddVhost(v) == [op |-> "add_vhost", vhost |-> v]
DelVhost(v) == [op |-> "del_vhost", vhost |-> v]
AddUser(u, p, t) == [op |-> "add_user", user |-> u, pass |-> p, tags |-> t]
DelUser(u) == [op |-> "del_user", user |-> u]
SetPerm(u, v, ok) == [op |-> "set_perm", user |-> u, vhost |-> v, valid |-> ok]
ClearPerm(u, v) == [op |-> "clear_perm", user |-> u, vhost |-> v]
Get == [op |-> "get"]
Healthz == [op |-> "health"]

Cred(u, p) == [user |-> u, pass |-> p]
\* The i-th request: from key k, with the credentials or the token.
Http(i, k, cred, want) ==
    [id |-> i, over |-> "http", key |-> k, cred |-> cred, token |-> FALSE, want |-> want]
WithToken(i, want) ==
    [id |-> i, over |-> "http", key |-> k1, cred |-> None, token |-> TRUE, want |-> want]
Amqp(i, k, cred) ==
    [id |-> i, over |-> "amqp", key |-> k, cred |-> cred, token |-> FALSE, want |-> Get]

\* Two users: root is an administrator, ann has the tags t.
Configured(t) ==
    Saved([vhosts |-> {"/"}, boot |-> TRUE,
           users |-> (root :> [pass |-> p1, tags |-> "administrator"] @@
                      ann :> [pass |-> p1, tags |-> t]),
           perms |-> {[user |-> ann, vhost |-> "/", valid |-> TRUE]}])

Fault(f) == [x \in Faults |-> IF x \in DOMAIN f THEN f[x] ELSE 0]
Setup == [cluster |-> FALSE, dataDir |-> TRUE, file |-> NoFile, log |-> <<>>, others |-> <<>>,
          maxConnections |-> 2, conns |-> {c1, c2}, until |-> 0, looks |-> 1, requests |-> {}, faults |-> Fault(<<>>)]

\* A fresh broker: the first user comes, goes, and the token is tried again.
FirstUser ==
    [Setup EXCEPT !.requests = {WithToken(1, AddUser(root, p1, "administrator")),
                                Http(2, k1, Cred(root, p1), DelUser(root)),
                                WithToken(3, AddVhost("v"))},
                  !.faults = Fault([crash |-> 2, savefail |-> 1])]

\* Without a directory for the file, and with a client that logs in.
InMemory ==
    [Setup EXCEPT !.dataDir = FALSE, !.conns = {c1},
                  !.requests = {WithToken(1, AddUser(root, p1, "administrator")),
                                WithToken(2, AddVhost("/")), Amqp(3, k1, Cred(root, p1))},
                  !.faults = Fault([crash |-> 1, workfail |-> 1])]

\* Ann's change races the one that takes her tags away, or ann herself.
Demoted ==
    {[Setup EXCEPT !.file = Configured("administrator"),
                   !.requests = {Http(1, k1, Cred(ann, p1), AddVhost("v")),
                                 Http(2, k2, Cred(root, p1), x)},
                   !.faults = Fault([hangup |-> 1, workfail |-> 1, shutdown |-> 1])] :
        x \in {AddUser(ann, p2, "management"), DelUser(ann)}}

\* Permissions and virtual hosts come and go, and the process with them.
Permissions ==
    [Setup EXCEPT !.file = Configured("management"), !.conns = {c1},
                  !.requests = {Http(1, k1, Cred(root, p1), ClearPerm(ann, "/")),
                                Http(2, k1, Cred(root, p1), SetPerm(ann, "/", FALSE)),
                                Http(3, k1, Cred(root, p1), DelVhost("/"))},
                  !.faults = Fault([crash |-> 1, savefail |-> 1, damage |-> 1])]

\* One address tries passwords over both protocols.
Guessing ==
    [Setup EXCEPT !.file = Configured("none"), !.until = 3, !.conns = {c1},
                  !.requests = {Http(1, k1, Cred(root, p2), Get), Amqp(2, k1, Cred(root, p2)),
                                Amqp(3, k1, None), Amqp(4, k1, Cred(ann, p1))}]

\* Two addresses, and no connection or table entry to spare.
Crowded ==
    [Setup EXCEPT !.file = Configured("none"), !.until = 1, !.maxConnections = 1,
                  !.requests = {Http(1, k1, Cred(root, p2), Get),
                                Http(2, k2, Cred(root, p2), Get), Amqp(3, k1, Cred(root, p2))},
                  !.faults = Fault([hangup |-> 1])]

\* More bytes arrive than the request has.
Chatty ==
    [Setup EXCEPT !.file = Configured("management"), !.looks = 2,
                  !.requests = {Http(1, k1, None, Get), Http(2, k1, Cred(ann, p1), AddVhost("v")),
                                Http(3, k1, None, Healthz)},
                  !.faults = Fault([hangup |-> 1, badread |-> 1])]

\* A node of a cluster in which the first user is being created, and then loses
\* the administrator's tag, elsewhere.
Clustered ==
    [Setup EXCEPT !.cluster = TRUE, !.dataDir = FALSE, !.conns = {c1},
                  !.log = <<AddVhost("/")>>,
                  !.others = <<AddUser(root, p1, "administrator"),
                               AddUser(root, p1, "management")>>,
                  !.requests = {WithToken(1, AddUser(ann, p1, "administrator")),
                                Http(2, k1, Cred(root, p1), AddVhost("v"))},
                  !.faults = Fault([crash |-> 1, isolated |-> 1, elected |-> 1])]

MCScenarios ==
    {FirstUser, InMemory, Permissions, Guessing, Crowded, Chatty, Clustered} \cup Demoted
=============================================================================
