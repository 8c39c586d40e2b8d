--------------------------- MODULE AccountBootstrap ---------------------------
(***************************************************************************)
(* The first requests of an installation.  Every route runs                *)
(* PaperAccountService.ensure_initialized before its own work: two SELECTs *)
(* and an upsert for each row that was missing.  The trading and portfolio *)
(* routes then commit; the admin routes go on in the same transaction.     *)
(*                                                                         *)
(* This composes that code with TradingCycle: here the account may not     *)
(* exist yet, requests create it while others already trade or kill, and   *)
(* p takes the steps of TradingCycle when boot[p] is "ready".              *)
(***************************************************************************)
EXTENDS TradingCycle

VARIABLES
    boot,    \* where each request is in ensure_initialized
    rows,    \* the rows of the account that are committed; while one is not
             \* there, the value that cash or risk has is read by nobody
    early    \* history: who was in ensure_initialized when it was created

account == <<boot, rows, early>>
allvars == <<vars, account>>

BootSteps == {"readBalance", "insertBalance", "readRisk", "insertRisk", "finish"}
Booting == {p \in Procs : boot[p] \in BootSteps}

\* Whose transaction may hold rows of ensure_initialized: an administrator's
\* goes on until the transition is committed.
Creating == Booting \cup {p \in Admins : boot[p] = "ready" /\ pc[p] # "done"}

BootInit ==
    /\ Init
    /\ boot = [p \in Procs |-> "idle"]
    /\ rows = {} /\ early = {}

BootStep(p, here, there) == boot[p] = here /\ boot' = [boot EXCEPT ![p] = there]

-------------------------------------------------------------------------------
\* A route reads the clock first.  A cycle's variables are set up by Arrive.
ReceiveCycle(p) ==
    /\ BootStep(p, "idle", "readBalance")
    /\ Arrive(p)
    /\ UNCHANGED <<rows, early>>

ReceiveOther(p) ==
    /\ BootStep(p, "idle", "readBalance")
    /\ \E t \in (clock + 1)..MaxClock : /\ clock' = t
                                        /\ loc' = [loc EXCEPT ![p].now = t]
    /\ UNCHANGED <<db, pc, tx, rows, early>>

\* Mutant of ReadBalance: the balance is written whether it exists or not.
ReadBalanceAlwaysWrites(p) ==
    /\ BootStep(p, "readBalance", "insertBalance")
    /\ UNCHANGED <<vars, rows, early>>

ReadBalance(p) ==
    /\ BootStep(p, "readBalance",
                IF "balance" \in rows THEN "readRisk" ELSE "insertBalance")
    /\ UNCHANGED <<vars, rows, early>>

\* set_balance is an upsert: it waits for whoever has written the row, and then
\* overwrites a row that has come to exist since ReadBalance.
InsertBalance(p) ==
    /\ BootStep(p, "insertBalance", "readRisk")
    /\ \A q \in Procs \ {p} : tx[q].cash = None
    /\ tx' = [tx EXCEPT ![p].cash = InitialCash]
    /\ UNCHANGED <<db, clock, pc, loc, rows, early>>

\* Mutant of ReadRiskRow: a missing balance is taken to mean a missing risk row.
ReadRiskRowAssumed(p) ==
    /\ BootStep(p, "readRisk", IF tx[p].cash # None THEN "insertRisk" ELSE "finish")
    /\ UNCHANGED <<vars, rows, early>>

\* The risk row is looked for only after the balance has been written.
ReadRiskRow(p) ==
    /\ BootStep(p, "readRisk", IF "risk" \in rows THEN "finish" ELSE "insertRisk")
    /\ UNCHANGED <<vars, rows, early>>

InsertRisk(p) ==
    /\ BootStep(p, "insertRisk", "finish")
    /\ \A q \in Procs \ {p} : tx[q].risk = None
    /\ tx' = [tx EXCEPT ![p].risk = FreshRiskState(Day(loc[p].now), InitialCash)]
    /\ UNCHANGED <<db, clock, pc, loc, rows, early>>

Written(p) == (IF tx[p].cash # None THEN {"balance"} ELSE {})
              \cup (IF tx[p].risk # None THEN {"risk"} ELSE {})

\* The commit of p, as far as the account's rows are concerned.
RowsCommitted(p) ==
    /\ rows' = rows \cup Written(p)
    /\ early' = IF "balance" \in Written(p) \ rows THEN Creating \ {p} ELSE early

\* Mutant of CommitAccount: the commit is left to the end of the request.
CommitAccountLater(p) ==
    /\ p \notin Admins
    /\ BootStep(p, "finish", "ready")
    /\ pc' = IF p \in Reconcilers THEN [pc EXCEPT ![p] = "listFills"] ELSE pc
    /\ UNCHANGED <<db, clock, loc, tx, rows, early>>

\* _initialize_account commits, whether anything was written or not.
CommitAccount(p) ==
    /\ p \notin Admins
    /\ BootStep(p, "finish", "ready")
    /\ pc' = IF p \in Reconcilers THEN [pc EXCEPT ![p] = "listFills"] ELSE pc
    /\ Commit(p, {}) /\ RowsCommitted(p)
    /\ UNCHANGED <<clock, loc>>

\* The admin routes transition in the transaction that may have created the
\* account, so they see its row; a refused transition takes the account with it.
AdminTransition(p) ==
    LET current == IF tx[p].risk = None THEN risk ELSE tx[p].risk
    IN  /\ p \in Admins
        /\ BootStep(p, "finish", "ready")
        /\ \E c \in AdminCommands :
              IF current.sys \in AllowedFrom[c]
              THEN /\ Step(p, "idle", "adminSave")
                   /\ loc' = [loc EXCEPT ![p].risk = [current EXCEPT !.sys = Target[c]]]
                   /\ UNCHANGED tx
              ELSE /\ Step(p, "idle", "done")
                   /\ Rollback(p)
                   /\ Answer(p, "conflict")
        /\ UNCHANGED <<db, clock, rows, early>>

BootCrash(p) ==
    /\ p \in Booting
    /\ boot' = [boot EXCEPT ![p] = "ready"]
    /\ pc' = [pc EXCEPT ![p] = "done"]
    /\ Rollback(p)
    /\ Answer(p, "crashed")
    /\ UNCHANGED <<db, clock, rows, early>>

\* What the request does once the account exists: the steps of TradingCycle.
Serve(p) ==
    /\ boot[p] = "ready"
    /\ Proceed(p) \/ Crash(p)
    /\ IF pc[p] = "adminCommit" /\ loc'[p].outcome = "changed"
       THEN RowsCommitted(p) ELSE UNCHANGED <<rows, early>>
    /\ UNCHANGED boot

BootNext ==
    \/ \E p \in Requests : ReceiveCycle(p)
    \/ \E p \in Reconcilers \cup Admins : ReceiveOther(p)
    \/ \E p \in Procs :
          \/ ReadBalance(p) \/ InsertBalance(p) \/ ReadRiskRow(p) \/ InsertRisk(p)
          \/ CommitAccount(p) \/ AdminTransition(p) \/ BootCrash(p)
          \/ Serve(p)
    \/ Quiet /\ Booting = {} /\ UNCHANGED account

BootSpec == BootInit /\ [][BootNext]_allvars

-------------------------------------------------------------------------------
\* The rows, labels and history have their types.
BootTypeOK ==
    /\ TypeOK
    /\ boot \in [Procs -> BootSteps \cup {"idle", "ready"}]
    /\ rows \subseteq {"balance", "risk"}
    /\ early \subseteq Procs

\* A cycle or an audit is only served by an account whose two rows are
\* committed, and asks the exchange for a quote without holding either of them
\* (api/routes/trading.py:117 commits before the network call).
ServedOnCommittedRows ==
    \A p \in Requests \cup Reconcilers :
        /\ boot[p] = "ready" /\ pc[p] # "done" => rows = {"balance", "risk"}
        /\ boot[p] = "ready" /\ pc[p] = "quote" => tx[p] = NoWrites

\* However many first requests race, the risk row is created once: creating the
\* account never replaces a row that exists, so it takes back no kill, no day's
\* loss and no cooldown.  What protects the row is that it is read only after
\* the balance was written, behind the balance row's lock.
RiskRowBornOnce ==
    [][\A p \in Procs : boot[p] = "finish" /\ boot'[p] = "ready" /\ "risk" \in rows
          => risk' = risk]_allvars

\* The balance has no such protection: a first request that is delayed between
\* its SELECT and its upsert takes back what others have traded since.  But only
\* requests that were there when the account was created can; when they are
\* through, no step of any request moves the balance except together with a fill.
OnlyEarlyRequestsReset ==
    [][rows # {} /\ early \cap Creating = {} /\ cash' # cash => fills' # fills]_allvars
===============================================================================
