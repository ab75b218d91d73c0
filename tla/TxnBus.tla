------------------------------- MODULE TxnBus -------------------------------
(***************************************************************************)
(* Transactions on the automation bus: the journal (Journal, txn.rs)       *)
(* composed with the premise ledger (witness.rs), the dispatch of verbs,   *)
(* commits and aborts (zbus.rs), and the page it re-reads before a commit  *)
(* (page.rs).                                                              *)
(*                                                                         *)
(* Every client has a connection, served by one thread, and workers: the   *)
(* threads session.rs spawns for a commit that has premises to re-read,    *)
(* one for a commit sent as a session command, one for a commit sent as a  *)
(* bus frame.                                                              *)
(* Journal and ledger have a mutex each and no operation holds both, so a  *)
(* request is a series of lock sections; each section is one action here,  *)
(* and the field pc of a thread's record says which one comes next.  A     *)
(* request that is refused changes nothing and has no action.              *)
(*                                                                         *)
(* wire is what the browser's extension worker receives, in order.         *)
(***************************************************************************)
EXTENDS Journal, Sequences, FiniteSets

CONSTANTS
  Client,
  Pure,          \* verbs rev() classes "pure"
  Irreversible,  \* verbs rev() classes "irreversible"; Verb are the "inverse" ones
  Names,         \* Names[c]: what client c writes in a "txn" field
  Forms,         \* where a page.witness carries it: in "args", or in the "frame"
  Vias,          \* how a commit arrives: "session" command or "bus" frame
  Proj, Val,     \* page projections and what they can show
  Op,            \* predicates, each the set of values that satisfy it
  MaxRequests,   \* bound of the model: requests all clients make
  MaxChanges     \* bound of the model: page changes

NoOp == {}  \* a premise by content: the "op" field is absent

Named == UNION {Names[c] : c \in Client}
Ids == Named \ {NoTxn}

ASSUME TxnBusAssumption ==
  /\ Names \in [Client -> SUBSET (Explicit \cup {NoTxn})]
  /\ Forms \subseteq {"args", "frame"}
  /\ Vias \subseteq {"session", "bus"}
  /\ Op \subseteq SUBSET Val /\ NoOp \notin Op
  /\ MaxRequests \in Nat /\ MaxRequests <= MaxSeq
  /\ MaxChanges \in Nat
  /\ Verb \cap (Pure \cup Irreversible) = {} /\ Pure \cap Irreversible = {}

VARIABLES
  ledger,       \* witness.rs Ledger.open, as one set of premises
  nextWitness,  \* Ledger.next
  call,         \* what each thread is doing
  wire,         \* actions and compensations published, in order
  page,         \* the page the browser shows
  asked,        \* requests made so far
  changes,      \* page changes so far
  born,         \* history: how often each id was begun
  filed,        \* history: every premise ever filed
  since         \* history: the page states since the last premise of a transaction

bvars == <<ledger, nextWitness, call, wire, page, asked, changes, born, filed, since>>
vars == <<jvars, bvars>>

Thread == Client \X {"conn", "session", "bus"}
Conn(c) == <<c, "conn">>

Idle == [pc |-> "idle"]
At(th, pc) == call[th].pc = pc
Goto(th, r) == call' = [call EXCEPT ![th] = r]

(* A client waits for the reply to its last request.  A session command    *)
(* that went to a worker is answered by the worker; a commit frame on the  *)
(* bus is answered at once ("no reply from host session"), while its       *)
(* worker goes on.                                                         *)
Ready(c) ==
  /\ asked < MaxRequests
  /\ At(Conn(c), "idle")
  /\ At(<<c, "session">>, "idle")
Ask == asked' = asked + 1

-----------------------------------------------------------------------------
TxnBusInit ==
  /\ JournalInit
  /\ ledger = {} /\ nextWitness = 0
  /\ call = [th \in Thread |-> Idle]
  /\ wire = <<>>
  /\ page \in [Proj -> Val]
  /\ asked = 0 /\ changes = 0
  /\ born = [t \in TxnId |-> 0] /\ filed = {}
  /\ since = [t \in TxnId |-> {}]

(* txn_begin. *)
TxnBegin(c, t) ==
  /\ Ready(c) /\ Ask
  /\ IF t = NoTxn THEN BeginAlloc ELSE BeginExplicit(t)
  /\ born' = [born EXCEPT ![IF t = NoTxn THEN Allocated ELSE t] = @ + 1]
  /\ since' = [since EXCEPT ![IF t = NoTxn THEN Allocated ELSE t] = {}]
  /\ UNCHANGED <<ledger, nextWitness, call, wire, page, changes, filed>>

(* The reversibility class of a verb; one in no table is irreversible. *)
Rev(verb) ==
  IF verb \in Verb THEN "inverse" ELSE IF verb \in Pure THEN "pure" ELSE "irreversible"

(* The gate of call_verb and, for host commands, of dispatch_call: is a    *)
(* transaction open that this call belongs to?  Only browser verbs are in  *)
(* the inverse class, so a host command is never journaled.                *)
Gated(tag) == open # {} /\ tag \in open \cup {NoTxn}

Call(c, tag, verb) ==
  /\ Ready(c) /\ Ask
  /\ ~ (Gated(tag) /\ Rev(verb) = "irreversible")
  /\ Goto(Conn(c),
       IF Gated(tag) /\ Rev(verb) = "inverse"
         THEN [pc |-> "record", tag |-> tag, verb |-> verb]
         ELSE [pc |-> "forward", tag |-> tag, verb |-> verb, seq |-> 0])
  /\ UNCHANGED <<jvars, ledger, nextWitness, wire, page, changes, born, filed, since>>

(* call_verb, the journal stamp.  The transaction may have closed since    *)
(* the gate; the step is then forwarded without a stamp (seq 0).           *)
CallRecord(th) ==
  /\ At(th, "record")
  /\ LET r == call[th]
         Forwarding(seq) == [pc |-> "forward", tag |-> r.tag, verb |-> r.verb, seq |-> seq]
     IN \/ /\ open # {}
           /\ Record(r.tag, r.verb)
           /\ Goto(th, Forwarding(IF Targets(r.tag) # {} THEN seqClock + 1 ELSE 0))
        \/ /\ open = {}
           /\ UNCHANGED jvars
           /\ Goto(th, Forwarding(0))
  /\ UNCHANGED <<ledger, nextWitness, wire, page, asked, changes, born, filed, since>>

(* run_command of a browser verb. *)
Forward(th) ==
  /\ At(th, "forward")
  /\ wire' = Append(wire, [kind |-> "do", txn |-> call[th].tag,
                           seq |-> call[th].seq, verb |-> call[th].verb])
  /\ Goto(th, Idle)
  /\ UNCHANGED <<jvars, ledger, nextWitness, page, asked, changes, born, filed, since>>

-----------------------------------------------------------------------------
Ledgered(t) == {p \in ledger : p.txn = t}

(* page.witness, up to the read: the transactions it is for are fixed now. *)
(* witness_here reads "txn" from args alone; in a frame that carries it    *)
(* beside args the premise counts as un-tagged.                            *)
Witness(c, tag, form, proj, op) ==
  LET txns == Targets(IF form = "args" THEN tag ELSE NoTxn)
  IN /\ Ready(c) /\ Ask
     /\ txns # {}
     /\ Goto(Conn(c), [pc |-> "read", tag |-> tag, proj |-> proj, op |-> op,
                       for |-> {[txn |-> t, born |-> born[t]] : t \in txns}])
     /\ UNCHANGED <<jvars, ledger, nextWitness, wire, page, changes, born, filed, since>>

(* evaluate, a predicate being the set of values it is true of. *)
Satisfies(v, op) == op = NoOp \/ v \in op

(* The browser answers the read.  A predicate that is false now is refused. *)
ReadPage(th) ==
  /\ At(th, "read")
  /\ LET r == call[th]
         v == page[r.proj]
     IN Goto(th, IF ~ Satisfies(v, r.op) THEN Idle
                 ELSE [pc |-> "file", tag |-> r.tag, proj |-> r.proj, for |-> r.for,
                       accept |-> IF r.op = NoOp THEN {v} ELSE r.op])
  /\ UNCHANGED <<jvars, ledger, nextWitness, wire, page, asked, changes, born, filed, since>>

(* The deadline passes, or the browser cannot read the page. *)
ReadFails(th) ==
  /\ At(th, "read")
  /\ Goto(th, Idle)
  /\ UNCHANGED <<jvars, ledger, nextWitness, wire, page, asked, changes, born, filed, since>>

(* witness::record, on the transactions fixed before the read. *)
FilePremise(th) ==
  /\ At(th, "file")
  /\ nextWitness' = nextWitness + 1
  /\ LET r == call[th]
         P == {[id |-> nextWitness + 1, tag |-> r.tag, txn |-> f.txn, born |-> f.born,
                proj |-> r.proj, accept |-> r.accept] : f \in r.for}
     IN /\ ledger' = ledger \cup P
        /\ filed' = filed \cup P
        /\ since' = [t \in TxnId |->
             IF \E p \in P : p.txn = t THEN {page} ELSE since[t]]
  /\ Goto(th, Idle)
  /\ UNCHANGED <<jvars, wire, page, asked, changes, born>>

-----------------------------------------------------------------------------
(* The drained entries in the order of compensation, latest first: each    *)
(* with its place in the list.                                             *)
Reversed(J) ==
  {[place |-> Cardinality({d \in J : d.seq > e.seq}), seq |-> e.seq, verb |-> e.verb] : e \in J}

(* Mutant: the drained entries are handed over oldest first. *)
DrainInOrder(th, t) ==
  /\ TakeReversed(t)
  /\ Goto(th, [pc |-> "drop", txn |-> t,
       steps |-> {[place |-> Cardinality({d \in Journaled(t) : d.seq < e.seq}),
                   seq |-> e.seq, verb |-> e.verb] : e \in Journaled(t)}])
  /\ UNCHANGED <<ledger, nextWitness, wire, page, changes, born, filed, since>>

(* abort, its first lock section: the journal. *)
Drain(th, t) ==
  /\ TakeReversed(t)
  /\ Goto(th, [pc |-> "drop", txn |-> t, steps |-> Reversed(Journaled(t))])
  /\ UNCHANGED <<ledger, nextWitness, wire, page, changes, born, filed, since>>

TxnAbort(c, t) == Ready(c) /\ Ask /\ Drain(Conn(c), t)

(* Mutant: an abort forgets the ledger. *)
KeepPremises(th) ==
  /\ At(th, "drop")
  /\ Goto(th, IF call[th].steps = {} THEN Idle
              ELSE [pc |-> "undo", txn |-> call[th].txn, steps |-> call[th].steps])
  /\ UNCHANGED <<jvars, ledger, nextWitness, wire, page, asked, changes, born, filed, since>>

(* Mutant: a lone step is not worth a compensation. *)
SkipLoneStep(th) ==
  /\ At(th, "drop")
  /\ ledger' = ledger \ Ledgered(call[th].txn)
  /\ Goto(th, IF Cardinality(call[th].steps) <= 1 THEN Idle
              ELSE [pc |-> "undo", txn |-> call[th].txn, steps |-> call[th].steps])
  /\ UNCHANGED <<jvars, nextWitness, wire, page, asked, changes, born, filed, since>>

(* abort, its second: the ledger.  Nothing is sent for an empty drain. *)
DropPremises(th) ==
  /\ At(th, "drop")
  /\ ledger' = ledger \ Ledgered(call[th].txn)
  /\ Goto(th, IF call[th].steps = {} THEN Idle
              ELSE [pc |-> "undo", txn |-> call[th].txn, steps |-> call[th].steps])
  /\ UNCHANGED <<jvars, nextWitness, wire, page, asked, changes, born, filed, since>>

(* Mutant: the thread does not leave the compensation behind it. *)
SendUndoAgain(th) ==
  /\ At(th, "undo")
  /\ Len(wire) < MaxRequests
  /\ wire' = Append(wire, [kind |-> "undo", txn |-> call[th].txn, steps |-> call[th].steps])
  /\ UNCHANGED <<jvars, ledger, nextWitness, call, page, asked, changes, born, filed, since>>

(* abort, the one browser.undo that carries every step. *)
SendUndo(th) ==
  /\ At(th, "undo")
  /\ wire' = Append(wire, [kind |-> "undo", txn |-> call[th].txn, steps |-> call[th].steps])
  /\ Goto(th, Idle)
  /\ UNCHANGED <<jvars, ledger, nextWitness, page, asked, changes, born, filed, since>>

-----------------------------------------------------------------------------
(* txn_commit arrives.  With premises to re-read it moves to a worker (the *)
(* model has one per client and way), without them it stays on the         *)
(* connection.                                                             *)
TxnCommit(c, t, via) ==
  LET th == IF Ledgered(t) # {} THEN <<c, via>> ELSE Conn(c)
  IN /\ Ready(c) /\ Ask
     /\ At(th, "idle")
     /\ Goto(th, [pc |-> "take", txn |-> t])
     /\ UNCHANGED <<jvars, ledger, nextWitness, wire, page, changes, born, filed, since>>

(* Mutant: the premises are read and stay in the ledger. *)
PeekPremises(th) ==
  /\ At(th, "take")
  /\ LET P == Ledgered(call[th].txn)
     IN Goto(th, IF P = {} THEN [pc |-> "close", txn |-> call[th].txn]
                 ELSE [pc |-> "validate", txn |-> call[th].txn, premises |-> P])
  /\ UNCHANGED <<jvars, ledger, nextWitness, wire, page, asked, changes, born, filed, since>>

(* commit_gated takes the premises; none means an unconditional commit. *)
TakePremises(th) ==
  /\ At(th, "take")
  /\ LET P == Ledgered(call[th].txn)
     IN /\ ledger' = ledger \ P
        /\ Goto(th, IF P = {} THEN [pc |-> "close", txn |-> call[th].txn]
                    ELSE [pc |-> "validate", txn |-> call[th].txn, premises |-> P])
  /\ UNCHANGED <<jvars, nextWitness, wire, page, asked, changes, born, filed, since>>

Holds(p, pg) == pg[p.proj] \in p.accept

(* Mutant: a commit stands when any of its premises still holds. *)
RevalidateSome(th) ==
  /\ At(th, "validate")
  /\ Goto(th, [txn |-> call[th].txn, pc |->
       IF \E p \in call[th].premises : Holds(p, page) THEN "close" ELSE "unwind"])
  /\ UNCHANGED <<jvars, ledger, nextWitness, wire, page, asked, changes, born, filed, since>>

(* revalidate: one batch, so all premises are judged on one page. *)
Revalidate(th) ==
  /\ At(th, "validate")
  /\ Goto(th, [txn |-> call[th].txn, pc |->
       IF \A p \in call[th].premises : Holds(p, page) THEN "close" ELSE "unwind"])
  /\ UNCHANGED <<jvars, ledger, nextWitness, wire, page, asked, changes, born, filed, since>>

(* Mutant: a commit that could not be checked is given up. *)
GiveUpUnread(th) ==
  /\ At(th, "validate")
  /\ Goto(th, Idle)
  /\ UNCHANGED <<jvars, ledger, nextWitness, wire, page, asked, changes, born, filed, since>>

(* The batch fails or the deadline passes: nobody could confirm it. *)
RevalidateFails(th) ==
  /\ At(th, "validate")
  /\ Goto(th, [pc |-> "unwind", txn |-> call[th].txn])
  /\ UNCHANGED <<jvars, ledger, nextWitness, wire, page, asked, changes, born, filed, since>>

Close(th) ==
  /\ At(th, "close")
  /\ Commit(call[th].txn)
  /\ Goto(th, Idle)
  /\ since' = [since EXCEPT ![call[th].txn] = {}]
  /\ UNCHANGED <<ledger, nextWitness, wire, page, asked, changes, born, filed>>

(* A conflict turns the commit into the abort above. *)
Unwind(th) ==
  /\ At(th, "unwind")
  /\ Drain(th, call[th].txn)
  /\ UNCHANGED asked

(* The user, a timer, a server push: other writers of the page. *)
PageChange ==
  /\ changes < MaxChanges
  /\ changes' = changes + 1
  /\ \E q \in Proj : \E v \in Val \ {page[q]} : page' = [page EXCEPT ![q] = v]
  /\ since' = [t \in TxnId |-> IF since[t] = {} THEN {} ELSE since[t] \cup {page'}]
  /\ UNCHANGED <<jvars, ledger, nextWitness, call, wire, asked, born, filed>>

-----------------------------------------------------------------------------
Request(c) ==
  \/ \E t \in Names[c] : TxnBegin(c, t)
  \/ \E t \in Names[c], v \in Verb \cup Pure \cup Irreversible : Call(c, t, v)
  \/ \E t \in Names[c], f \in Forms, q \in Proj, o \in Op \cup {NoOp} : Witness(c, t, f, q, o)
  \/ \E t \in Names[c] \ {NoTxn} : TxnAbort(c, t)
  \/ \E t \in Names[c] \ {NoTxn}, via \in Vias : TxnCommit(c, t, via)

(* What a thread does on its own, the deadlines of page reads included. *)
Advance(th) ==
  \/ CallRecord(th) \/ Forward(th)
  \/ ReadFails(th) \/ FilePremise(th)
  \/ DropPremises(th) \/ SendUndo(th)
  \/ TakePremises(th) \/ RevalidateFails(th) \/ Close(th) \/ Unwind(th)

Browser == PageChange \/ \E th \in Thread : ReadPage(th) \/ Revalidate(th)

TxnBusNext ==
  \/ \E c \in Client : Request(c)
  \/ \E th \in Thread : Advance(th)
  \/ Browser

TxnBusSpec == TxnBusInit /\ [][TxnBusNext]_vars
FairTxnBusSpec == TxnBusSpec /\ \A th \in Thread : WF_vars(Advance(th))

-----------------------------------------------------------------------------
Stamp(e) == [txn |-> e.txn, seq |-> e.seq]
StampsOf(r) == {[txn |-> r.txn, seq |-> s.seq] : s \in r.steps}

Undos == {i \in DOMAIN wire : wire[i].kind = "undo"}
(* Where the step numbered n was executed: the positions of its action. *)
Executed(n) == {i \in DOMAIN wire : wire[i].kind = "do" /\ wire[i].seq = n}

Unsent == {StampsOf(call[th]) :
             th \in {x \in Thread : call[x].pc \in {"drop", "undo"} /\ call[x].steps # {}}}

Promise == INSTANCE Saga WITH
  Txn <- TxnId,
  pending <- {Stamp(e) : e \in entries},
  kept <- {Stamp(e) : e \in kept},
  batches <- Unsent,
  sent <- {[at |-> i, steps |-> StampsOf(wire[i])] : i \in Undos}

(* The bus keeps the promise of Saga: however aborts, commits, conflicts   *)
(* and calls of all clients interleave, the steps of a transaction are     *)
(* kept together or compensated together, and compensated one time.        *)
KeepsPromise == Promise!SagaSpec

Phase ==
  [pc : {"idle"}]
  \cup [pc : {"record"}, tag : Named, verb : Verb]
  \cup [pc : {"forward"}, tag : Named, verb : Verb \cup Pure \cup Irreversible, seq : Nat]
  \cup [pc : {"read"}, tag : Named, proj : Proj, op : Op \cup {NoOp},
         for : SUBSET [txn : TxnId, born : 0 .. MaxRequests]]
  \cup [pc : {"file"}, tag : Named, proj : Proj, accept : SUBSET Val,
         for : SUBSET [txn : TxnId, born : 0 .. MaxRequests]]
  \cup [pc : {"take", "close", "unwind"}, txn : Ids]
  \cup [pc : {"drop", "undo"}, txn : Ids, steps : SUBSET [place : Nat, seq : 1 .. MaxSeq, verb : Verb]]

(* Types, and what the records of the threads and of the wire stand for: a *)
(* stamp was drawn from the clock, the steps a thread holds have left the  *)
(* journal, and premises waiting for validation have left the ledger.      *)
TxnTypeOK ==
  /\ \A th \in Thread :
       LET r == call[th]
       IN \/ r \in Phase
          \/ r.pc = "validate" /\ r.premises # {} /\ r.premises \cap ledger = {}
  /\ (UNION Unsent) \cap {Stamp(e) : e \in entries} = {}
  /\ \A p \in ledger : p.id \in 1 .. nextWitness /\ p.accept # {}
  /\ \A i \in DOMAIN wire : wire[i].kind = "do" => wire[i].seq <= seqClock

(* A compensation undoes actions that were executed, in the reverse of the *)
(* order the browser executed them in (txn.rs: "journaled here in          *)
(* execution order ... compensated in REVERSE order").                     *)
UndoReversesExecution ==
  \A u \in Undos : \A s \in wire[u].steps :
    /\ \E i \in Executed(s.seq) : i < u
    /\ \A r \in wire[u].steps : r.place < s.place =>
         \A i \in Executed(r.seq), j \in Executed(s.seq) : j < i

(* The key a compensation names, the transaction and the number, is the    *)
(* key the action was stamped with: the worker files what an action        *)
(* changed under that key (README, txn.rs).                                *)
UndoNamesStampedKey ==
  \A u \in Undos : \A s \in wire[u].steps :
    \A i \in Executed(s.seq) : wire[i].txn = wire[u].txn

(* Premises end with their transaction: one that is begun under an id used *)
(* before inherits none (zbus.rs abort, witness.rs take).                  *)
NoInheritedPremise ==
  \A t \in open : \A p \in Ledgered(t) : p.born = born[t]

Declared(t) == {p \in filed : p.txn = t /\ p.born = born[t]}

(* A transaction commits only if every premise declared in it held, all at *)
(* one moment after the last of them was declared (zbus.rs commit_gated).  *)
CommitConfirmed ==
  [][\A t \in open \ open' :
       (Declared(t) # {} /\ \E th \in Thread : At(th, "close") /\ call[th].txn = t /\ At(th, "idle")')
         => \E pg \in since[t] : \A p \in Declared(t) : Holds(p, pg)]_vars

(* Once a commit has been asked for, the transaction ends, committed or    *)
(* unwound, even if the browser never answers.                             *)
CommitDecides ==
  \A t \in Ids :
    (\E th \in Thread : At(th, "take") /\ call[th].txn = t) ~> (t \notin open)

Sent == UNION {StampsOf(wire[u]) : u \in Undos}
Owed(t) == {e \in undone : e.txn = t /\ ~ (Stamp(e) \in Sent /\ Executed(e.seq) # {})}

(* Every drained step reaches the browser in a compensation, and the       *)
(* action it compensates reaches it too, if perhaps later.                 *)
UndoneIsSent == \A t \in Ids : (Owed(t) # {}) ~> (Owed(t) = {})

(* The inductive invariant behind TxnBus_proofs: what a thread that is     *)
(* about to touch the journal carries.                                     *)
ThreadOK(r) ==
  /\ r.pc = "record" => r.tag \in TxnId \cup {NoTxn} /\ r.verb \in Verb
  /\ r.pc \in {"take", "validate", "close", "unwind", "drop", "undo"} => r.txn \in TxnId

CallOK ==
  /\ call = [th \in Thread |-> call[th]]
  /\ \A th \in Thread : ThreadOK(call[th])

(* The invariant behind the refinement of Saga: the types of all records,  *)
(* and that the steps a thread or an undo on the wire carries are drained  *)
(* ones, each thread's its own.                                            *)
Premise ==
  [id : Nat \ {0}, tag : Named, txn : TxnId, born : 0 .. MaxRequests,
   proj : Proj, accept : (SUBSET Val) \ {{}}]

BusPhase ==
  {r \in Phase : r.pc = "file" => r.accept # {}}
  \cup [pc : {"validate"}, txn : Ids, premises : (SUBSET Premise) \ {{}}]

Frame ==
  [kind : {"do"}, txn : Named, seq : Nat, verb : Verb \cup Pure \cup Irreversible]
  \cup [kind : {"undo"}, txn : Ids, steps : SUBSET [place : Nat, seq : 1 .. MaxSeq, verb : Verb]]

BusTypes ==
  /\ call \in [Thread -> BusPhase]
  /\ wire \in Seq(Frame)
  /\ page \in [Proj -> Val]
  /\ asked \in 0 .. MaxRequests /\ born \in [TxnId -> 0 .. asked]
  /\ nextWitness \in Nat /\ ledger \subseteq Premise
  /\ IsFiniteSet(entries) /\ seqClock <= MaxSeq

(* The clocks are ahead of every stamp and every premise in circulation,   *)
(* and a premise is in the ledger or with one commit.                      *)
BusClocks ==
  /\ \A th \in Thread : At(th, "forward") => call[th].seq <= seqClock
  /\ \A i \in DOMAIN wire : wire[i].kind = "do" => wire[i].seq <= seqClock
  /\ \A p \in ledger : p.id <= nextWitness
  /\ \A th \in Thread : At(th, "validate") =>
       /\ call[th].premises \cap ledger = {}
       /\ \A p \in call[th].premises : p.id <= nextWitness

Whole(r) == {[seq |-> s.seq, txn |-> r.txn, verb |-> s.verb] : s \in r.steps}
Draining == {th \in Thread : call[th].pc \in {"drop", "undo"}}

Drained ==
  /\ \A th \in Draining : Whole(call[th]) \subseteq undone
  /\ \A th \in Draining : At(th, "undo") => call[th].steps # {}
  /\ \A th, x \in Draining : th # x => Whole(call[th]) \cap Whole(call[x]) = {}
  /\ \A u \in Undos : Whole(wire[u]) \subseteq undone

BusInv ==
  /\ JournalInv
  /\ CallOK
  /\ BusTypes
  /\ BusClocks
  /\ Drained

(* The discipline under which transactions of several clients do not meet: *)
(* an id is one client's own, every request writes it where it is read,    *)
(* and a commit is a session command, which its client waits for.          *)
Disciplined ==
  /\ Forms \subseteq {"args"} /\ Vias \subseteq {"session"}
  /\ \A c \in Client : NoTxn \notin Names[c]
  /\ \A c, d \in Client : c # d => Names[c] \cap Names[d] = {}

Busy == {th \in Thread : call[th].pc # "idle"}
About(r) == IF r.pc \in {"record", "forward", "read", "file"} THEN r.tag ELSE r.txn

(* A client has one thread at work, on a transaction of its own. *)
Alone ==
  /\ \A th \in Busy : th[2] # "bus" /\ About(call[th]) \in Names[th[1]]
  /\ \A th, x \in Busy : th[1] = x[1] => th = x

(* The premises of an open transaction are in the ledger until the commit  *)
(* that judges them takes them, and the page since the last of them is     *)
(* remembered.                                                             *)
Deciding(t) == {th \in Thread : call[th].pc \in {"validate", "close", "unwind"} /\ call[th].txn = t}

Dropping(t) == {th \in Thread : call[th].pc = "drop" /\ call[th].txn = t}

Judged(t) ==
  /\ Dropping(t) = {}
  /\ Deciding(t) = {} => Declared(t) \subseteq ledger
  /\ Declared(t) # {} => page \in since[t]
  /\ \A th \in Deciding(t) : At(th, "validate") => Declared(t) \subseteq call[th].premises
  /\ \A th \in Deciding(t) : At(th, "close") /\ Declared(t) # {} =>
       \E pg \in since[t] : \A p \in Declared(t) : Holds(p, pg)

FiledTypes ==
  /\ ledger \subseteq filed /\ filed \subseteq Premise
  /\ since \in [TxnId -> SUBSET [Proj -> Val]]
  /\ \A p \in filed : p.born <= born[p.txn]

ForOpen ==
  \A th \in Thread : call[th].pc \in {"read", "file"} =>
    \A f \in call[th].for : f.txn = call[th].tag /\ f.txn \in open /\ f.born = born[f.txn]

LedgerCurrent ==
  \A p \in ledger :
    /\ p.born = born[p.txn] /\ Deciding(p.txn) = {}
    /\ p.txn \in open \/ Dropping(p.txn) # {}

PremisesCurrent ==
  /\ FiledTypes
  /\ ForOpen
  /\ LedgerCurrent
  /\ \A t \in open : Judged(t)

(* The actions of one transaction reach the browser in the order of their  *)
(* numbers, and before the transaction is drained.                         *)
LatestFirst(steps) == \A r, s \in steps : r.place < s.place => s.seq < r.seq

Tagged(t) == {i \in DOMAIN wire : wire[i].kind = "do" /\ wire[i].txn = t}

NumbersRise ==
  /\ \A th \in Thread, t \in Ids :
       At(th, "forward") /\ call[th].tag = t /\ call[th].seq # 0 =>
         \A i \in Tagged(t) : wire[i].seq < call[th].seq
  /\ \A t \in Ids : \A i, j \in Tagged(t) : i < j /\ wire[j].seq # 0 => wire[i].seq < wire[j].seq

StampsMatch ==
  /\ \A e \in Ever : Executed(e.seq) \subseteq Tagged(e.txn)
  /\ \A e \in Ever, th \in Thread :
       At(th, "forward") /\ call[th].seq = e.seq => call[th].tag = e.txn

StepsExecuted ==
  /\ \A e \in entries : Executed(e.seq) = {} =>
       \E th \in Thread : At(th, "forward") /\ call[th].seq = e.seq
  /\ \A e \in undone : Executed(e.seq) # {}

UndoOrdered ==
  /\ \A th \in Draining : LatestFirst(call[th].steps)
  /\ \A u \in Undos : LatestFirst(wire[u].steps)
  /\ \A u \in Undos : \A s \in wire[u].steps : \E i \in Executed(s.seq) : i < u

WireOrdered ==
  /\ NumbersRise
  /\ StampsMatch
  /\ StepsExecuted
  /\ UndoOrdered

DisciplineInv == BusInv /\ Alone /\ PremisesCurrent /\ WireOrdered
=============================================================================
