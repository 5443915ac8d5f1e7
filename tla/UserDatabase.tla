---------------------------- MODULE UserDatabase ----------------------------
(***************************************************************************)
(* The scheduler's database, one JSON file (scheduler/Database.ts), and    *)
(* what it keeps there: the users that monitors add, remove and log in as  *)
(* (scheduler/fisk-scheduler.ts, server.on("monitor")), and the links      *)
(* between environments (scheduler/Environments.ts, Links.ts).             *)
(*                                                                         *)
(* The database performs one operation at a time.  Its set() reads the     *)
(* file and replaces one record in its own turn; a monitor's message does  *)
(* a get(), goes on in promises, and then a set() of the whole record of   *)
(* users.  Links are kept in memory, and written after each change.        *)
(***************************************************************************)
EXTENDS Naturals, Sequences, FiniteSets

CONSTANTS Users,        \* names
          Environments, \* hashes
          Monitors,
          MaxRequests,  \* bound: messages about users
          MaxChanges,   \* bound: changes of links
          MaxFaults,    \* bound: crashes and failures of the file system
          Stored,       \* the records in the file when the scheduler starts
          Absent,       \* no entry under a name
          Corrupt       \* the contents of a file that is no JSON

Requests == 1..MaxRequests
Records == [users : [Users -> Requests \cup {0, Absent}],
            links : [Environments -> SUBSET Environments]]

ASSUME DatabaseAssumption ==
    /\ {MaxRequests, MaxChanges, MaxFaults} \subseteq Nat
    /\ Absent \notin Nat
    /\ Stored \in [users : [Users -> {0, Absent}], links : [Environments -> SUBSET Environments]]
    /\ Corrupt \notin Records

VARIABLES
    file,       \* db.json: its records "users" and "links", or Corrupt
    tmp,        \* db.json.tmp: "none", "partial" or "whole"
    copy,       \* the records of the set that is performed
    ops,        \* the operation that is performed, and the queue behind it
    stage,      \* of the first of ops: "reading", "writing", "renaming", "renamed"
    links,      \* Environments._links: the targets of each source
    envs,       \* Environments._data
    req,        \* the messages of monitors
    base,       \* the users each of them was given by get()
    pendingUsers,
    user,       \* the name each monitor has logged in as
    budget      \* faults and changes left (bounds)

\* What the replies have promised, and what may excuse the database.
VARIABLES
    promised,   \* the entry under each name
    overlapped, \* a write of users missed another one, or the file was damaged
    unsaved,    \* the last write of links failed
    lingering   \* environments that links may be left of when they are removed

dbVars == <<file, tmp, copy, ops, stage>>
linkVars == <<links, envs>>
monitorVars == <<req, base, pendingUsers, user>>
history == <<promised, overlapped, unsaved, lingering>>
databaseVars == <<dbVars, linkVars, monitorVars, budget, history>>

NoLinks == [s \in Environments |-> {}]
NoUsers == [u \in Users |-> Absent]
Empty == [users |-> NoUsers, links |-> NoLinks]

NoRequest == [pc |-> "unsent", kind |-> "-", name |-> "-", from |-> "-"]
Answered == [NoRequest EXCEPT !.pc = "answered"]

DatabaseInit ==
    /\ file = Stored
    /\ tmp = "none"
    /\ copy = Empty
    /\ ops = <<>>
    /\ stage = "reading"
    /\ links = Stored.links
    /\ envs = Environments
    /\ req = [r \in Requests |-> NoRequest]
    /\ base = [r \in Requests |-> NoUsers]
    /\ pendingUsers = {}
    /\ user = [m \in Monitors |-> Absent]
    /\ budget = [faults |-> MaxFaults, changes |-> MaxChanges]
    /\ promised = Stored.users
    /\ overlapped = FALSE
    /\ unsaved = FALSE
    /\ lingering = {}

----------------------------------------------------------------------------
(* Database.ts *)

GetUsers(r) == [type |-> "get", by |-> r]
SetUsers(r) == [type |-> "users", by |-> r]

\* syncLinks(): the object is new, its targets are those of _links (live).
SetLinks(value, then, e) ==
    [type |-> "links", targets |-> value, live |-> {s \in Environments : value[s] # {}},
     then |-> then, env |-> e]

\* finishedOperation(), and what the caller's promise goes on to ask for.
FinishedOperation(queue, more) ==
    /\ ops' = Tail(queue) \o more
    /\ stage' = "reading"
    /\ copy' = Empty

Performing(type) == ops # <<>> /\ Head(ops).type = type
Fault == budget.faults > 0 /\ budget' = [budget EXCEPT !.faults = @ - 1]

\* What the message writes in place of its user's entry.
Entry(r) == IF req[r].kind = "remove" THEN Absent ELSE r

\* set(): one record of the file, as it is now, is replaced.
Contents(op) ==
    IF op.type = "users"
    THEN [file EXCEPT !.users = [base[op.by] EXCEPT ![req[op.by].name] = Entry(op.by)]]
    ELSE [file EXCEPT !.links = op.targets]

SetReads ==
    /\ Performing("users") \/ Performing("links")
    /\ stage = "reading"
    /\ file # Corrupt
    /\ copy' = Contents(Head(ops))
    /\ stage' = "writing"
    /\ tmp' = "partial"
    /\ UNCHANGED <<file, ops, linkVars, monitorVars, budget, history>>

\* Mutant of Written: the end of the write is not waited for.
WrittenUnawaited ==
    /\ stage = "writing"
    /\ stage' = "renaming"
    /\ UNCHANGED <<file, tmp, copy, ops, linkVars, monitorVars, budget, history>>

\* fs.writeFile ends.
Written ==
    /\ stage = "writing"
    /\ tmp' = "whole"
    /\ stage' = "renaming"
    /\ UNCHANGED <<file, copy, ops, linkVars, monitorVars, budget, history>>

\* fs.rename; overlapped and unsaved say what it does to the promises.
Renamed ==
    /\ stage = "renaming"
    /\ file' = IF tmp = "whole" THEN copy ELSE Corrupt
    /\ tmp' = "none"
    /\ stage' = "renamed"
    /\ IF Head(ops).type = "users"
       THEN overlapped' = (overlapped \/ file.users # base[Head(ops).by]) /\ UNCHANGED unsaved
       ELSE unsaved' = FALSE /\ UNCHANGED overlapped
    /\ UNCHANGED <<copy, ops, linkVars, monitorVars, budget, promised, lingering>>

----------------------------------------------------------------------------
(* fisk-scheduler.ts: monitors *)

\* removeUser and addUser shut out others of the same name; login does not.
Exclusive(kind) == kind \in {"add", "remove"}

MonitorMessage(r, m, kind, u) ==
    /\ req[r].pc = "unsent"
    /\ \A p \in 1..r - 1 : req[p].pc # "unsent"
    /\ kind = "remove" => user[m] # Absent
    /\ user' = [user EXCEPT ![m] = IF kind = "login" THEN Absent ELSE @]
    /\ IF Exclusive(kind) /\ u \in pendingUsers
       THEN /\ req' = [req EXCEPT ![r] = Answered]
            /\ UNCHANGED <<ops, pendingUsers>>
       ELSE /\ req' = [req EXCEPT ![r] = [pc |-> "get", kind |-> kind, name |-> u, from |-> m]]
            /\ ops' = Append(ops, GetUsers(r))
            /\ pendingUsers' = IF Exclusive(kind) THEN pendingUsers \cup {u} ELSE pendingUsers
    /\ UNCHANGED <<file, tmp, copy, stage, base, linkVars, budget, history>>

\* Mutant of Over: a message that fails before its set() leaves its name shut.
OverAfterSet(r) ==
    /\ req' = [req EXCEPT ![r] = Answered]
    /\ base' = [base EXCEPT ![r] = NoUsers]
    /\ pendingUsers' = IF req[r].pc = "set" /\ Exclusive(req[r].kind)
                       THEN pendingUsers \ {req[r].name} ELSE pendingUsers

\* The reply, and finally().
Over(r) ==
    /\ req' = [req EXCEPT ![r] = Answered]
    /\ base' = [base EXCEPT ![r] = NoUsers]
    /\ pendingUsers' = IF Exclusive(req[r].kind)
                       THEN pendingUsers \ {req[r].name} ELSE pendingUsers

\* get("users") resolves.  A user that is there cannot be added, one that is not
\* cannot be removed or log in; removeUser calls set() at once.
GotUsers ==
    /\ Performing("get")
    /\ file # Corrupt
    /\ LET r == Head(ops).by
           k == req[r].kind
       IN IF (file.users[req[r].name] = Absent) # (k = "add")
          THEN Over(r) /\ FinishedOperation(ops, <<>>)
          ELSE /\ base' = [base EXCEPT ![r] = file.users]
               /\ req' = [req EXCEPT ![r].pc = IF k = "remove" THEN "set" ELSE "hash"]
               /\ FinishedOperation(ops, IF k = "remove" THEN <<SetUsers(r)>> ELSE <<>>)
               /\ UNCHANGED pendingUsers
    /\ UNCHANGED <<file, tmp, user, linkVars, budget, history>>

\* Hashes and random bytes: they fail, the password is wrong, or set() of the record as get() gave it.
Hashed(r, right) ==
    /\ req[r].pc = "hash"
    /\ IF right
       THEN /\ req' = [req EXCEPT ![r].pc = "set"]
            /\ ops' = Append(ops, SetUsers(r))
            /\ user' = [user EXCEPT ![req[r].from] = IF req[r].kind = "login" THEN req[r].name ELSE @]
            /\ UNCHANGED <<pendingUsers, base>>
       ELSE Over(r) /\ UNCHANGED <<ops, user>>
    /\ UNCHANGED <<file, tmp, copy, stage, linkVars, budget, history>>

\* set("users") resolves, and the monitor is told.
Saved ==
    /\ Performing("users")
    /\ stage = "renamed"
    /\ LET r == Head(ops).by
       IN Over(r) /\ promised' = [promised EXCEPT ![req[r].name] = Entry(r)]
    /\ FinishedOperation(ops, <<>>)
    /\ UNCHANGED <<file, tmp, user, linkVars, budget, overlapped, unsaved, lingering>>

----------------------------------------------------------------------------
(* Environments.ts: links *)

\* _links is now ls, and the Links of the sources in gone were deleted as they were:
\* pending sets see what happens to a Links object until it is deleted.
Seen(queue, ls, gone) ==
    [i \in DOMAIN queue |->
       IF queue[i].type = "links" /\ (i > 1 \/ stage = "reading")
       THEN [queue[i] EXCEPT
               !.targets = [s \in Environments |-> IF s \in queue[i].live \ gone THEN ls[s] ELSE @[s]],
               !.live = {s \in @ \ gone : ls[s] # {}}]
       ELSE queue[i]]

\* A monitor's message or a removal changes links, and syncLinks() is called.
Relink(ls, gone, then, e) ==
    /\ budget.changes > 0
    /\ budget' = [budget EXCEPT !.changes = @ - 1]
    /\ links' = ls
    /\ ops' = Append(Seen(ops, ls, gone), SetLinks(ls, then, e))
    /\ UNCHANGED <<file, tmp, copy, stage, monitorVars, promised, overlapped, unsaved>>

LinksWithout(t) == [s \in Environments |-> links[s] \ {t}]

Link(s, t) ==
    /\ Relink([links EXCEPT ![s] = @ \cup {t}], {}, "done", Absent)
    /\ lingering' = lingering \cup {s, t}
    /\ UNCHANGED envs

\* unlink() of a source and a target, of a source, or of a target.
Unlink(s, t) ==
    /\ \/ Relink([links EXCEPT ![s] = @ \ {t}], {}, "done", Absent)
       \/ Relink([links EXCEPT ![s] = {}], {s}, "done", Absent)
       \/ Relink(LinksWithout(t), {}, "done", Absent)
    /\ UNCHANGED <<lingering, envs>>

\* Environments.remove: the links of the environment go first, those to it when
\* that is saved, and then all are saved once more.
RemoveEnvironment(e) ==
    /\ e \in envs
    /\ envs' = envs \ {e}
    /\ Relink([links EXCEPT ![e] = {}], {e}, "targets", e)
    /\ lingering' = lingering \ {e}

\* Mutant of LinksSaved: a removed environment stays a target.
LinksSavedKeepingTargets ==
    /\ Performing("links")
    /\ stage = "renamed"
    /\ FinishedOperation(ops, <<>>)
    /\ UNCHANGED <<file, tmp, linkVars, monitorVars, budget, history>>

\* set("links") resolves, and what is left of a removal goes on.
LinksSaved ==
    /\ Performing("links")
    /\ stage = "renamed"
    /\ LET op == Head(ops)
           rest == LinksWithout(op.env)
       IN CASE op.then = "done" -> FinishedOperation(ops, <<>>) /\ UNCHANGED links
            [] op.then = "targets" ->
                 /\ links' = rest
                 /\ FinishedOperation(Seen(ops, rest, {}), <<SetLinks(rest, "sync", op.env)>>)
            [] op.then = "sync" ->
                 FinishedOperation(ops, <<SetLinks(links, "done", Absent)>>) /\ UNCHANGED links
    /\ UNCHANGED <<file, tmp, envs, monitorVars, budget, history>>

----------------------------------------------------------------------------
(* Failures *)

\* Mutant of Rejected: the queue does not go on.
RejectedForgettingQueue(op) ==
    /\ stage' = "reading"
    /\ ops' = <<[type |-> "stuck"]>> \o Tail(ops)
    /\ copy' = Empty
    /\ IF op.type = "links"
       THEN /\ unsaved' = TRUE
            /\ lingering' = IF op.then = "targets" THEN lingering \cup {op.env} ELSE lingering
            /\ UNCHANGED <<req, base, pendingUsers>>
       ELSE Over(op.by) /\ UNCHANGED <<unsaved, lingering>>

\* The operation is rejected, the message that asked for it fails, and the next
\* operation begins.  Environments.remove() gives up where it is.
Rejected(op) ==
    /\ FinishedOperation(ops, <<>>)
    /\ IF op.type = "links"
       THEN /\ unsaved' = TRUE
            /\ lingering' = IF op.then = "targets" THEN lingering \cup {op.env} ELSE lingering
            /\ UNCHANGED <<req, base, pendingUsers>>
       ELSE Over(op.by) /\ UNCHANGED <<unsaved, lingering>>

\* A read, the write, or the rename fails.
FileFails ==
    /\ ops # <<>>
    /\ stage # "renamed"
    /\ Fault
    /\ Rejected(Head(ops))
    /\ UNCHANGED <<file, tmp, user, linkVars, promised, overlapped>>

\* Somebody else breaks the file: what it held is lost.
Damage ==
    /\ Fault
    /\ file # Corrupt
    /\ file' = Corrupt
    /\ overlapped' = TRUE
    /\ unsaved' = TRUE
    /\ UNCHANGED <<tmp, copy, ops, stage, linkVars, monitorVars, promised, lingering>>

\* _read() finds no JSON: the file is put aside, and the next read starts afresh.
Quarantine ==
    /\ ops # <<>>
    /\ stage = "reading"
    /\ file = Corrupt
    /\ file' = Empty
    /\ Rejected(Head(ops))
    /\ UNCHANGED <<tmp, user, linkVars, budget, promised, overlapped>>

\* The process ends and is started again: load() reads the links.  What was renamed
\* but not answered yet stays; a broken file is put aside, by a start that fails.
Crash ==
    /\ Fault
    /\ ops' = <<>>
    /\ stage' = "reading"
    /\ copy' = Empty
    /\ file' = IF file = Corrupt THEN Empty ELSE file
    /\ links' = file'.links
    /\ req' = [r \in Requests |-> IF req[r].pc = "unsent" THEN req[r] ELSE Answered]
    /\ base' = [r \in Requests |-> NoUsers]
    /\ pendingUsers' = {}
    /\ user' = [m \in Monitors |-> Absent]
    /\ promised' = IF Performing("users") /\ stage = "renamed"
                   THEN [promised EXCEPT ![req[Head(ops).by].name] = Entry(Head(ops).by)]
                   ELSE promised
    /\ unsaved' = FALSE
    /\ lingering' = Environments
    /\ UNCHANGED <<tmp, envs, overlapped>>

----------------------------------------------------------------------------

Going ==
    \/ SetReads \/ Written \/ Renamed
    \/ GotUsers \/ Saved \/ LinksSaved \/ Quarantine

DatabaseNext ==
    \/ Going
    \/ \E r \in Requests :
          \/ \E m \in Monitors, kind \in {"add", "remove", "login"}, u \in Users : MonitorMessage(r, m, kind, u)
          \/ \E right \in BOOLEAN : Hashed(r, right)
    \/ \E s, t \in Environments : Link(s, t) \/ Unlink(s, t)
    \/ \E e \in Environments : RemoveEnvironment(e)
    \/ FileFails
    \/ Damage
    \/ Crash

\* File operations and hashes come to an end.
DatabaseSpec ==
    /\ DatabaseInit /\ [][DatabaseNext]_databaseVars
    /\ WF_databaseVars(Going)
    /\ \A r \in Requests : WF_databaseVars(\E right \in BOOLEAN : Hashed(r, right))

----------------------------------------------------------------------------
(* Properties *)

DatabaseTypeOK ==
    /\ file \in Records \cup {Corrupt}
    /\ tmp \in {"none", "partial", "whole"}
    /\ copy \in Records
    /\ stage \in {"reading", "writing", "renaming", "renamed"}
    /\ links \in [Environments -> SUBSET Environments]
    /\ envs \subseteq Environments
    /\ \A r \in Requests : req[r].pc \in {"unsent", "get", "hash", "set", "answered"}
    /\ base \in [Requests -> [Users -> Requests \cup {0, Absent}]]
    /\ user \in [Monitors -> Users \cup {Absent}]
    /\ promised \in [Users -> Requests \cup {0, Absent}]

Waiting == {r \in Requests : req[r].pc \in {"get", "hash", "set"}}

(* Exactly the names that a message is adding or removing are shut to others: however
   it ends, its name is free again. *)
NamesAreFreed ==
    /\ DatabaseTypeOK
    /\ pendingUsers = {req[r].name : r \in {w \in Waiting : Exclusive(req[w].kind)}}

(* The file is what monitors were told, over failures at every stage, crashes, and
   the links that are written to the same file meanwhile: a message that succeeded
   is in it, one that failed is not.  The exceptions, in overlapped: a message that
   wrote back the record of users it had read before another one changed it, and a
   file that somebody else broke. *)
KeptUnlessOverlapped ==
    ~overlapped =>
       /\ file # Corrupt
       /\ \A u \in Users :
             \/ file.users[u] = promised[u]
             \/ /\ Performing("users")
                /\ stage = "renamed"
                /\ req[Head(ops).by].name = u
                /\ file.users[u] = Entry(Head(ops).by)

LinksUnderWay == {i \in DOMAIN ops : ops[i].type = "links"}

(* Between changes the file holds the links that are in force, unless the last write
   of them failed, whatever users were written before and after; and no link is left
   of an environment that was removed, unless a monitor made it later, the first of
   the removal's writes failed, or the scheduler crashed (lingering). *)
LinksKept ==
    LinksUnderWay = {} /\ ~unsaved =>
       /\ file # Corrupt
       /\ file.links = links
       /\ \A e \in Environments \ (envs \cup lingering) :
             links[e] = {} /\ \A s \in Environments : e \notin links[s]

(* Every message is answered, unless the scheduler crashes: the operations behind one
   that failed, and those behind a broken file, are performed. *)
EveryMessageAnswered == \A r \in Requests : r \in Waiting ~> r \notin Waiting
=============================================================================
