-------------------------- MODULE BootAuthorization --------------------------
(***************************************************************************)
(* Network installation of an assigned ESXi host: boot claims, their       *)
(* authorization, and the Kickstart that is handed out once                *)
(*                                                                         *)
(*   atlaso/app/services/network_boot.py  claims and capabilities          *)
(*   atlaso/app/api/network_boot.py       the requests                     *)
(*   atlaso/app/ui.py                     the Kickstart, the apply         *)
(*   scripts/appliance/atlaso-helper      esxi-pxe apply                   *)
(*                                                                         *)
(* The boot menu of a host creates a claim.  An operator authorizes it by  *)
(* its console code, unless the applied policy needs no console; the host  *)
(* polls it, gets a loader with a token, and the token fetches the         *)
(* Kickstart.  The requests run in threads of the web process.  A session  *)
(* reads rows before its first write, and its first write until its commit *)
(* is one step, because SQLite has one writer.  So every request is a read *)
(* and a commit, with effects on files between them, and what it read is   *)
(* kept in its thread's record.                                            *)
(***************************************************************************)
EXTENDS Integers, Sequences, SequencesExt

CONSTANTS
    Threads,    \* request threads of the web process
    MaxClaims,  \* bound: claims ever created, all for one host
    MaxEdits,   \* bound: changes of the saved configuration
    MaxCrashes  \* bound: deaths of the web process

ASSUME BootConstants == MaxClaims \in Nat /\ MaxEdits \in Nat /\ MaxCrashes \in Nat

Attempts == 1 .. MaxClaims
Revisions == 0 .. MaxEdits

VARIABLES
    cap,      \* NetworkBootEsxiBootCapability rows
    made,     \* claims created so far
    files,    \* attempts whose loader files exist
    desired,  \* saved host, Kickstart and policy
    applied,  \* the applied snapshot of them
    apply,    \* an apply of the ESXi unit
    th,       \* the request threads
    served,   \* history: Kickstart revisions rendered for each attempt
    edits, crashes

vars == <<cap, made, files, desired, applied, apply, th, served, edits, crashes>>
config == <<desired, applied, apply, edits, crashes>>

(* `by' is who authorized the claim: nobody yet, the policy, an operator.  *)
NoRow == [there |-> FALSE, by |-> "none", consumed |-> FALSE, expired |-> FALSE,
          token |-> FALSE, kick |-> 0]
Config == [host : Revisions, kick : Revisions, console : BOOLEAN]
First(console) == [host |-> 0, kick |-> 0, console |-> console]

(* What a request keeps: the claim it is about, the claims it read as      *)
(* dead and as live, those it will revoke, and the snapshot it read.       *)
Idle == [pc |-> "idle", op |-> "none", a |-> 0, dead |-> {}, live |-> {},
         others |-> {}, ctx |-> First(TRUE), fits |-> FALSE]

Row == [there : BOOLEAN, by : {"none", "policy", "operator"}, consumed : BOOLEAN,
        expired : BOOLEAN, token : BOOLEAN, kick : Revisions]
Pcs == {"idle", "sweep", "swept", "claim", "authorize", "reject", "prepare", "token",
        "consume"}
Thread == [pc : Pcs, op : {"none", "menu", "authorize", "fetch"}, a : 0 .. MaxClaims,
           dead : SUBSET Attempts, live : SUBSET Attempts, others : SUBSET Attempts,
           ctx : Config, fits : BOOLEAN]

RowsTyped    == /\ cap \in [Attempts -> Row] /\ made \in 0 .. MaxClaims
                /\ files \subseteq Attempts
ConfigTyped  == /\ desired \in Config /\ applied \in Config
                /\ apply \in [pc : {"idle", "host"}, captured : Config]
                /\ edits \in 0 .. MaxEdits /\ crashes \in 0 .. MaxCrashes
ThreadsTyped == th \in [Threads -> Thread]
ServedTyped  == served \in [Attempts -> Seq(Revisions)]

(* Tokens exist only for authorized claims, a Kickstart is rendered only   *)
(* for a claim that is consumed or gone, and there are rows and files only *)
(* for claims that were made.                                              *)
TokenGranted == \A a \in Attempts : cap[a].token => cap[a].by # "none"
ServedSpent  == \A a \in Attempts : served[a] # <<>> => ~cap[a].there \/ cap[a].consumed
ClaimsMade   == \A a \in Attempts : cap[a].there \/ a \in files => a <= made

TypeOK == /\ RowsTyped /\ ConfigTyped /\ ThreadsTyped /\ ServedTyped
          /\ TokenGranted /\ ServedSpent /\ ClaimsMade

Init ==
    /\ cap = [a \in Attempts |-> NoRow] /\ made = 0 /\ files = {}
    /\ \E console \in BOOLEAN : desired = First(console) /\ applied = desired
    /\ apply = [pc |-> "idle", captured |-> desired]
    /\ th = [t \in Threads |-> Idle]
    /\ served = [a \in Attempts |-> <<>>]
    /\ edits = 0 /\ crashes = 0

-----------------------------------------------------------------------------
(* Helpers of the requests.                                                *)

Dead(a) == cap[a].consumed \/ cap[a].expired
Rows    == {a \in Attempts : cap[a].there}

(* _applied_esxi_boot_context: an edited host has no applied state.        *)
Available == desired.host = applied.host

(* The claim is still for what is applied, and one that the policy had     *)
(* authorized still needs no console.                                      *)
Fits(a) == Available /\ cap[a].kick = applied.kick
Permits(a) == cap[a].by = "policy" => ~applied.console

Go(t, pc)    == th' = [th EXCEPT ![t].pc = pc]
Done(t)      == th' = [th EXCEPT ![t] = Idle]
Consumed(S)  == [a \in Attempts |-> IF a \in S THEN [cap[a] EXCEPT !.consumed = TRUE] ELSE cap[a]]
Deleted(S)   == [a \in Attempts |-> IF a \in S THEN NoRow ELSE cap[a]]

-----------------------------------------------------------------------------
(* cleanup_esxi_boot_authorizations opens every menu request and every     *)
(* authorization: the rows are read, then files that belong to none of the *)
(* live ones are removed; the dead rows are deleted with the commit.       *)

CleanupRead(t) ==
    /\ th[t].pc = "idle"
    /\ \E op \in {"menu", "authorize"} :
         /\ op = "menu" => made < MaxClaims
         /\ op = "authorize" => Rows # {}
         /\ LET dead == {a \in Rows : Dead(a)} IN
            th' = [th EXCEPT ![t] = [Idle EXCEPT !.pc = "sweep", !.op = op, !.dead = dead,
                                                 !.live = Rows \ dead]]
    /\ UNCHANGED <<cap, made, files, served, config>>

Sweep(t) ==
    /\ th[t].pc = "sweep"
    /\ files' = files \cap th[t].live
    /\ th' = [th EXCEPT ![t].pc = "swept", ![t].live = {}]
    /\ UNCHANGED <<cap, made, served, config>>

-----------------------------------------------------------------------------
(* The boot menu: create_esxi_boot_claim.                                  *)

ClaimRead(t) ==
    /\ th[t].pc = "swept" /\ th[t].op = "menu"
    /\ th' = [th EXCEPT ![t].pc = "claim", ![t].ctx = applied, ![t].fits = Available]
    /\ UNCHANGED <<cap, made, files, served, config>>

NewClaim(ctx) == [NoRow EXCEPT !.there = TRUE, !.kick = ctx.kick,
                               !.by = IF ctx.console THEN "none" ELSE "policy"]

(* Without an applied state, or on another listener, no claim is made.     *)
ClaimCommit(t) ==
    /\ th[t].pc = "claim" /\ made < MaxClaims
    /\ \/ /\ th[t].fits
          /\ made' = made + 1
          /\ cap' = [Deleted(th[t].dead) EXCEPT ![made + 1] = NewClaim(th[t].ctx)]
       \/ cap' = Deleted(th[t].dead) /\ UNCHANGED made
    /\ Done(t)
    /\ UNCHANGED <<files, served, config>>

-----------------------------------------------------------------------------
(* authorize_esxi_boot_once: an operator enters the code of a claim.       *)

Pending(a) == cap[a].there /\ cap[a].by = "none" /\ ~Dead(a)

(* A code that is unknown, or a claim that no longer fits, ends in a       *)
(* rollback: not even the dead rows are deleted.                           *)
AuthorizeRead(t) ==
    /\ th[t].pc = "swept" /\ th[t].op = "authorize"
    /\ \/ \E a \in Attempts \ th[t].dead :
            /\ Pending(a) /\ Fits(a)
            /\ th' = [th EXCEPT ![t].pc = "authorize", ![t].a = a,
                                ![t].others = {b \in Rows \ {a} : cap[b].by # "none"
                                                                  /\ ~cap[b].consumed}]
       \/ Done(t)
    /\ UNCHANGED <<cap, made, files, served, config>>

(* Earlier authorizations of the host are revoked; the commit fails when a *)
(* row it updates is gone.                                                 *)
AuthorizeCommit(t) ==
    /\ th[t].pc = "authorize"
    /\ files' = files \ th[t].others
    /\ LET a == th[t].a IN
         cap' = IF \E b \in {a} \cup (th[t].others \ th[t].dead) : ~cap[b].there THEN cap
                ELSE [b \in Attempts |->
                        IF b = a THEN [cap[a] EXCEPT !.by = "operator", !.expired = FALSE]
                        ELSE IF b \in th[t].dead THEN NoRow
                        ELSE IF b \in th[t].others THEN [cap[b] EXCEPT !.consumed = TRUE]
                        ELSE cap[b]]
    /\ Done(t)
    /\ UNCHANGED <<made, served, config>>

-----------------------------------------------------------------------------
(* render_esxi_boot_claim: the host polls its claim.                       *)

AnyClaim(a)   == TRUE
Authorized(a) == cap[a].by # "none"

Loadable(a) == Fits(a) /\ Permits(a)

(* Not yet authorized, the host waits and polls again.  A request that     *)
(* came in on another listener is always rejected.                         *)
Poll(t, a) ==
    /\ th[t].pc = "idle" /\ cap[a].there
    /\ \E pc \in {"reject"} \cup
          (IF ~Dead(a) /\ Authorized(a) /\ Loadable(a) THEN {"prepare"} ELSE {}) :
         th' = [th EXCEPT ![t] = [Idle EXCEPT !.a = a, !.pc = pc]]
    /\ UNCHANGED <<cap, made, files, served, config>>

(* _prepare_esxi_boot_attempt writes the loader files, or fails with some  *)
(* of them or none written.                                                *)
Prepare(t) ==
    /\ th[t].pc = "prepare"
    /\ \/ files' = files \cup {th[t].a} /\ (Go(t, "token") \/ Go(t, "reject"))
       \/ Go(t, "reject") /\ UNCHANGED files
    /\ UNCHANGED <<cap, made, served, config>>

(* The token is recorded before the loader is handed out; the same claim   *)
(* always gives the same token.                                            *)
RecordToken(t) ==
    /\ th[t].pc = "token"
    /\ cap' = IF cap[th[t].a].there THEN [cap EXCEPT ![th[t].a].token = TRUE] ELSE cap
    /\ Done(t)
    /\ UNCHANGED <<made, files, served, config>>

(* A claim that is dead or no longer fits is consumed, its files removed.  *)
(* The commit fails when the row is gone; a fetch that had to consume the  *)
(* claim then leaves the files, because it removes them after its commit.  *)
Reject(t) ==
    /\ th[t].pc = "reject"
    /\ cap' = IF cap[th[t].a].there THEN Consumed({th[t].a}) ELSE cap
    /\ files' = IF cap[th[t].a].there \/ th[t].op # "fetch" THEN files \ {th[t].a} ELSE files
    /\ Done(t)
    /\ UNCHANGED <<made, served, config>>

-----------------------------------------------------------------------------
(* consume_esxi_boot_capability: the installer fetches its Kickstart.      *)

Fetch(t, a) ==
    /\ th[t].pc = "idle" /\ cap[a].there /\ cap[a].token
    /\ \E pc \in {"reject"} \cup
          (IF ~Dead(a) /\ Loadable(a) THEN {"consume"} ELSE {}) :
         th' = [th EXCEPT ![t] = [Idle EXCEPT !.a = a, !.pc = pc, !.ctx = applied,
                                              !.op = IF cap[a].consumed THEN "none" ELSE "fetch"]]
    /\ UNCHANGED <<cap, made, files, served, config>>

(* The conditions of the UPDATE that consumes the row.                     *)
StillThere(a) == cap[a].there
Unconsumed(a) == cap[a].there /\ ~cap[a].consumed

(* Only the request whose update hit the row renders the Kickstart, from   *)
(* the snapshot it read; rendering may fail.                               *)
Consume(t) ==
    /\ th[t].pc = "consume"
    /\ LET a == th[t].a IN
       IF Unconsumed(a)
       THEN /\ cap' = Consumed({a}) /\ files' = files \ {a}
            /\ \E r \in {<<>>, <<th[t].ctx.kick>>} : served' = [served EXCEPT ![a] = @ \o r]
       ELSE UNCHANGED <<cap, files, served>>
    /\ Done(t)
    /\ UNCHANGED <<made, config>>

-----------------------------------------------------------------------------
(* Time, the administrators, the apply, and death.                         *)

Expire(a) ==
    /\ cap[a].there /\ ~cap[a].expired
    /\ cap' = [cap EXCEPT ![a].expired = TRUE]
    /\ UNCHANGED <<made, files, th, served, config>>

(* The handlers of a save write the desired state and touch no claim.      *)
HostSaved      == [desired EXCEPT !.host = edits + 1]
KickstartSaved == [desired EXCEPT !.kick = edits + 1]
PolicySaved    == [desired EXCEPT !.console = ~@]

Edit ==
    /\ edits < MaxEdits /\ edits' = edits + 1
    /\ \/ desired' = HostSaved
       \/ desired' = KickstartSaved
       \/ desired' = PolicySaved
    /\ UNCHANGED <<cap, made, files, applied, apply, th, served, crashes>>

(* The helper installs what was captured and clears the attempt roots.     *)
ApplyHost ==
    /\ apply.pc = "idle" /\ desired # applied
    /\ apply' = [pc |-> "host", captured |-> desired]
    /\ files' = {}
    /\ UNCHANGED <<cap, made, desired, applied, th, served, edits, crashes>>

(* One commit deletes every claim and records the snapshot.                *)
KeptClaims == cap
NoClaims   == [a \in Attempts |-> NoRow]

ApplyCommit ==
    /\ apply.pc = "host"
    /\ cap' = NoClaims
    /\ applied' = apply.captured
    /\ apply' = [apply EXCEPT !.pc = "idle"]
    /\ UNCHANGED <<made, files, desired, th, served, edits, crashes>>

(* A failed apply leaves the claims and the snapshot, not the files.       *)
ApplyFails ==
    /\ apply.pc = "host"
    /\ apply' = [apply EXCEPT !.pc = "idle"]
    /\ UNCHANGED <<cap, made, files, desired, applied, th, served, edits, crashes>>

Crash ==
    /\ crashes < MaxCrashes /\ crashes' = crashes + 1
    /\ th' = [t \in Threads |-> Idle]
    /\ apply' = [apply EXCEPT !.pc = "idle"]
    /\ UNCHANGED <<cap, made, files, desired, applied, served, edits>>

Request(t) ==
    \/ CleanupRead(t) \/ Sweep(t) \/ ClaimRead(t) \/ ClaimCommit(t)
    \/ AuthorizeRead(t) \/ AuthorizeCommit(t)
    \/ \E a \in Attempts : Poll(t, a) \/ Fetch(t, a)
    \/ Prepare(t) \/ RecordToken(t) \/ Reject(t) \/ Consume(t)

Next ==
    \/ \E t \in Threads : Request(t)
    \/ \E a \in Attempts : Expire(a)
    \/ Edit \/ ApplyHost \/ ApplyCommit \/ ApplyFails \/ Crash

Spec == Init /\ [][Next]_vars

-----------------------------------------------------------------------------
(* Properties.                                                             *)

(* An attempt gets its Kickstart once: of two fetches of one token, retried *)
(* or concurrent, only one renders it (the conditional update of           *)
(* consume_esxi_boot_capability).                                          *)
RenderedOnce == \A a \in Attempts : Len(served[a]) <= 1

(* What is handed out is what is applied at that moment, and an operator   *)
(* authorized it or the policy of that moment needs none: neither a claim  *)
(* made from an older snapshot nor a fetch that read one gets through an   *)
(* apply in between (execute_appliance_apply_unit deletes every claim in   *)
(* the transaction that records the snapshot).                             *)
RenderedIsApplied ==
    [][\A a \in Attempts : served'[a] # served[a] =>
         /\ Last(served'[a]) = applied.kick /\ cap[a].kick = applied.kick
         /\ cap[a].by = "operator" \/ ~applied.console]_vars
=============================================================================
