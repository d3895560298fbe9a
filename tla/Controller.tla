----------------------------- MODULE Controller -----------------------------
(***************************************************************************)
(* The virtual controller of commands.c: attaching it, taking the player   *)
(* slot from the console's own controllers, writing the buttons, handing   *)
(* the slot back and calling the disconnected controllers back.            *)
(*                                                                         *)
(* Everything here happens under controllerMutex, so that a function of    *)
(* the source is a function from one state record to the next; f says      *)
(* which of its calls to the console fail.  The pair of Joy-Cons on the    *)
(* rails counts on both sides of the one comparison that looks at it, and  *)
(* is left out.                                                            *)
(***************************************************************************)
EXTENDS Naturals, Sequences, FiniteSets, SequencesExt

CONSTANTS PadOrder,    \* the console's own Bluetooth controllers, in the order hidsys lists them
          Stranger,    \* an address nothing answers
          SavedMax,    \* CONTROLLER_SAVED_ADDR_MAX
          Retries,     \* CONTROLLER_RECONNECT_RETRIES
          LinkPasses   \* reconnect passes before a link is established

Pads == Range(PadOrder)
ASSUME ControllerAssumption ==
    /\ PadOrder \in Seq(Pads) /\ IsInjective(PadOrder) /\ Stranger \notin Pads
    /\ SavedMax \in Nat \ {0} /\ Retries \in Nat \ {0} /\ LinkPasses \in 1 .. Retries - 1

Buttons == {"A", "stick"}       \* a button, and a stick that is not centred
Ages    == {"never", "new", "pause", "idle"}   \* of controllerLastInputTick

(* taken: disconnected by a takeover; kicked: by hand; unlisted: a full     *)
(* list had no room for its address, or dropped it for an explicit one;     *)
(* lost: its address was never read or was given up.                        *)
Links == {"on", "taken", "kicked", "paging", "unlisted", "lost"}

Counts   == 0 .. Len(PadOrder) + 1
NoSample == Len(PadOrder) + 2
NoLayout == <<0, 0>>
States ==
    [init : BOOLEAN, held : SUBSET Buttons, built : {NoLayout} \cup ((1 .. 2) \X Counts),
     refreshed : BOOLEAN, yield : BOOLEAN,
     seq : BOOLEAN, age : Ages, takeover : BOOLEAN, sample : Counts \cup {NoSample},
     saved : Seq(Pads \cup {Stranger}), attempts : 0 .. Retries,
     attached : BOOLEAN, topo : 1 .. 2, holder : SUBSET Pads,
     link : [Pads -> Links], linkAge : 0 .. LinkPasses]

atBoot(holder) ==
    [init |-> FALSE, held |-> {}, built |-> NoLayout, refreshed |-> FALSE, yield |-> FALSE,
     seq |-> FALSE, age |-> "never", takeover |-> TRUE, sample |-> NoSample,
     saved |-> <<>>, attempts |-> 0,
     attached |-> FALSE, topo |-> 1, holder |-> holder,
     link |-> [p \in Pads |-> "on"], linkAge |-> 0]

\* Which pads' addresses can be read, which let themselves be disconnected, and whether the device
\* can be attached, at first and when the write is tried again.
Fine     == [addr |-> Pads, drop |-> Pads, first |-> TRUE, second |-> TRUE]
Failures == {[Fine EXCEPT !.addr = Pads \ {p}] : p \in Pads} \cup {[Fine EXCEPT !.drop = Pads \ {p}] : p \in Pads}
            \cup {[Fine EXCEPT !.first = FALSE], [Fine EXCEPT !.second = FALSE],
                  [Fine EXCEPT !.first = FALSE, !.second = FALSE]}

on(s)     == {p \in Pads : s.link[p] = "on"}
paging(s) == {p \in Pads : s.link[p] = "paging"}

\* hidsysGetUniquePadIds, our own device included.
listed(s) == Cardinality(on(s)) + (IF s.attached THEN 1 ELSE 0)

-----------------------------------------------------------------------------
(* The addresses of disconnected controllers.                              *)

\* The entries of q that are in S, in their order.
keeping(q, S) ==
    LET kept    == {i \in DOMAIN q : q[i] \in S}
        rank(i) == Cardinality({j \in kept : j <= i})
    IN [k \in 1 .. Cardinality(kept) |-> q[CHOOSE i \in kept : rank(i) = k]]

\* The pads of P in the order hidsys lists them.
listing == [P \in SUBSET Pads |-> keeping(PadOrder, P)]

\* The pads of P that a takeover disconnected are not called back any more, and why.
losing(link, P, why) == [p \in Pads |-> IF p \in P /\ link[p] = "taken" THEN why ELSE link[p]]

\* controllerRememberAddressLocked: a full list drops its oldest entry, whoever that is.
remembering(s, a) ==
    LET full == Len(s.saved) >= SavedMax
    IN IF a \in Range(s.saved) THEN s
       ELSE [s EXCEPT !.saved = Append(IF full THEN Tail(@) ELSE @, a),
                      !.link  = losing(@, IF full THEN {Head(s.saved)} ELSE {}, "unlisted")]

\* controllerSaveAddress for the pads of a slot, one after the other: an address that cannot be read
\* is skipped, a full list is left alone, and a new address starts a new budget.
savingAddress(s, f) ==
    LET new  == listing[(s.holder \cap f.addr) \ Range(s.saved)]
        room == SavedMax - Len(s.saved)
    IN [s EXCEPT !.saved    = @ \o SubSeq(new, 1, IF room < Len(new) THEN room ELSE Len(new)),
                 !.attempts = IF new # <<>> /\ room > 0 THEN 0 ELSE @]

\* Saved and disconnected, by a takeover or by hand.
disconnecting(s, f, how) ==
    LET t    == savingAddress(s, f)
        gone == s.holder \cap f.drop
    IN [t EXCEPT !.holder = @ \ gone,
                 !.link   = [p \in Pads |-> IF p \notin gone THEN s.link[p]
                                             ELSE IF p \in Range(t.saved) THEN how
                                             ELSE IF p \in f.addr THEN "unlisted" ELSE "lost"]]

\* kickControllerSlotHolders.
kicking(s, f) ==
    LET t == disconnecting(s, f, "taken")
    IN IF t.holder = s.holder THEN t ELSE [t EXCEPT !.yield = TRUE, !.sample = NoSample]

-----------------------------------------------------------------------------
(* The device.                                                             *)

\* teardownControllerLocked.
torndown(s) == [s EXCEPT !.init = FALSE, !.attached = FALSE, !.sample = NoSample]

\* The console takes a state while no controller of its own has the slot.
accepts(s) == s.attached /\ s.holder = {}

\* controllerTopologySignature: the state of the rails and of the dock, and the number of pads.
signature(s) == <<s.topo, listed(s)>>

\* initControllerLocked: the device counts as initialised whether or not it could be attached.
initialised(s, ok) ==
    IF s.init THEN s
    ELSE LET t == [s EXCEPT !.init = TRUE, !.attached = ok, !.sample = NoSample]
         IN [t EXCEPT !.built = signature(t)]

\* controllerDeviceIsAttachedLocked.
deviceAttached(s) == s.init /\ s.attached

takingOver(s, f) == IF s.takeover THEN kicking(s, f) ELSE s

\* ensureControllerLocked.
ensured(s, f) == IF deviceAttached(s) THEN s ELSE initialised(torndown(takingOver(s, f)), f.first)

\* writeControllerStateLocked: refused, it takes the slot, rebuilds the device and tries again.
wrote(s, f) ==
    LET t == ensured(s, f)
    IN IF accepts(t) THEN t ELSE initialised(torndown(takingOver(t, f)), f.second)

pressed(s, b, f)  == wrote([s EXCEPT !.held = @ \cup {b}], f)
released(s, b, f) == wrote([s EXCEPT !.held = @ \ {b}], f)

\* detachController.
detached(s) == [torndown(s) EXCEPT !.held = {}]

-----------------------------------------------------------------------------
(* Handing the slot back.                                                  *)

\* controllerPadSampleNow: all pads but our own, which is taken for listed.
sampled(s) == LET ours == IF s.init THEN 1 ELSE 0
              IN IF listed(s) > ours THEN listed(s) - ours ELSE 0

\* Mutated form of releasedIdle: whether anything is held is not asked.
releasedIdleAlways(s) ==
    IF s.init /\ s.age \in {"never", "idle"} /\ ~s.seq
    THEN [torndown(s) EXCEPT !.built = NoLayout, !.yield = FALSE] ELSE s

\* Mutated form of releasedIdle: an input long ago does not count as idle.
releasedIdleFresh(s) ==
    IF s.init /\ s.age = "never" /\ ~s.seq /\ s.held = {}
    THEN [torndown(s) EXCEPT !.built = NoLayout, !.yield = FALSE] ELSE s

\* controllerServiceIdle, its locked part.
releasedIdle(s) ==
    IF s.init /\ s.age \in {"never", "idle"} /\ ~s.seq /\ s.held = {}
    THEN [torndown(s) EXCEPT !.built = NoLayout, !.yield = FALSE] ELSE s

\* controllerRefreshIfIdle: after a pause, a device built for another layout is torn down, unless
\* that happened a moment ago (limited).
refreshed(s, limited) ==
    LET t == [s EXCEPT !.age = "new"]
    IN IF s.age \in {"pause", "idle"} /\ ~limited /\ s.init /\ signature(s) # s.built
       THEN torndown([t EXCEPT !.built = signature(s), !.refreshed = TRUE]) ELSE t

-----------------------------------------------------------------------------
(* Calling controllers back.                                               *)

\* btdrvTriggerConnection for each address of q: an error for one that is connected already or that
\* is in bad, and, the adapter paging one link at a time, for all but the first of the others.
triggered(s, q, bad) ==
    LET able == keeping(q, {p \in Pads \ bad : s.link[p] \in {"taken", "kicked", "unlisted", "lost"}})
    IN IF able = <<>> \/ paging(s) # {} THEN s
       ELSE [s EXCEPT !.link[Head(able)] = "paging", !.linkAge = 0]

\* Mutated form of reconnected: the addresses that failed are not kept.
reconnectedOnce(s, bad) ==
    IF s.saved = <<>> \/ s.init THEN s
    ELSE [triggered(s, s.saved, bad) EXCEPT !.saved = <<>>, !.attempts = 0]

\* One pass of controllerServiceReconnect: nothing while our device holds the slot; what failed is
\* kept for the next pass until the budget is used up.
reconnected(s, bad) ==
    LET t     == triggered(s, s.saved, bad)
        retry == keeping(s.saved, {Stranger} \cup {p \in Pads : t.link[p] = s.link[p]})
        last  == retry = <<>> \/ s.attempts + 1 >= Retries
    IN IF s.saved = <<>> \/ s.init THEN s
       ELSE [t EXCEPT !.saved = IF last THEN <<>> ELSE retry,
                      !.attempts = IF last THEN 0 ELSE @ + 1,
                      !.link = losing(@, IF last THEN Range(retry) ELSE {}, "lost"),
                      !.linkAge = IF paging(s) # {} THEN @ + 1 ELSE @]

\* btdrv does not open: the list is given up.
givenUp(s) == IF s.saved = <<>> \/ s.init THEN s
              ELSE [s EXCEPT !.saved = <<>>, !.attempts = 0, !.link = losing(@, Range(s.saved), "lost")]
=============================================================================
