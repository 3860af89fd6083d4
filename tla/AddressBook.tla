----------------------------- MODULE AddressBook -----------------------------
(****************************************************************************)
(* What AddAddress, SetPrimaryAddress and RemoveAddress of a Configurator   *)
(* (networkConfigurator.go) promise whoever calls them: each takes effect   *)
(* at once, when it returns, or not at all.  The lists of addresses and the *)
(* default gateways are all a caller sees of an interface.  A call that     *)
(* fails half-way, or a process that dies in one, may leave its own family  *)
(* torn, and leaves the other as it was.                                    *)
(****************************************************************************)
EXTENDS Integers, Sequences, SequencesExt

CONSTANTS
    Fam,            \* address families
    FamOf(_),       \* the family of an IP
    NewestFirst,    \* the families that list a new address before the others
    Requests,       \* records of an operation, its address and a gateway
    Nil, Zero       \* no gateway given, and the one that asks for none

VARIABLES
    held, route,    \* addresses in order and default gateway, for each family
    asked, answer   \* the last call, and what it returned or "running"

book == <<held, route, asked, answer>>

Family == FamOf(asked.addr.ip)
Others == held[Family]

\* The places of the address asked for; a list has it once or not at all.
Own == {i \in DOMAIN Others : Others[i].ip = asked.addr.ip}

Call ==
    /\ answer # "running" /\ answer' = "running"
    /\ asked' \in Requests
    /\ UNCHANGED <<held, route>>

\* A call that is refused may return before anybody has seen it run.
Refused ==
    /\ answer' = "refused" /\ asked' \in Requests
    /\ answer = "running" => asked' = asked
    /\ UNCHANGED <<held, route>>

Does(op) == answer = "running" /\ asked.op = op /\ UNCHANGED asked

\* Some list of those becomes the family's.
Becomes(lists, gateway) ==
    /\ \E list \in lists : held' = [held EXCEPT ![Family] = list]
    /\ route' = [route EXCEPT ![Family] = gateway]

\* An address that is new to a list: the first one, or somewhere behind the first.
Entered(s, a) ==
    {InsertAt(s, i, a) : i \in IF Family \in NewestFirst \/ s = <<>> THEN {1}
                               ELSE 2 .. Len(s) + 1}

\* All addresses of the list taken off and written again, a before the others: the family
\* lists it first, or last if it lists the newest first.
Rewritten(s, a) ==
    {t \in [DOMAIN s -> ToSet(s)] :
        ToSet(t) = ToSet(s) /\ t[IF Family \in NewestFirst THEN Len(s) ELSE 1] = a}

\* A new address enters the list; one the interface holds gets the prefix where it is.
Add ==
    /\ Does("AddAddress") /\ answer' = "ok"
    /\ Becomes(IF Own = {} THEN Entered(Others, asked.addr)
               ELSE {[i \in DOMAIN Others |-> IF i \in Own THEN asked.addr ELSE Others[i]]},
               CASE asked.gw = Nil -> route[Family]
                 [] asked.gw = Zero -> Nil
                 [] OTHER -> asked.gw)

\* The first address stays where it is; any other is written before the rest, with the
\* prefix it has.
Promote ==
    /\ Does("SetPrimaryAddress") /\ answer' = "ok"
    /\ \E i \in Own :
          Becomes(IF i = 1 THEN {Others} ELSE Rewritten(Others, Others[i]), route[Family])

Release ==
    /\ Does("RemoveAddress") /\ answer' = "ok"
    /\ \/ Own = {} /\ UNCHANGED <<held, route>>
       \/ \E i \in Own : Becomes({RemoveAt(Others, i)}, route[Family])

\* The test of the internet fails and the call is undone: a removed address comes back as
\* a new one, and a family that was reordered is written again in the order it had.
Undo ==
    /\ answer = "running" /\ UNCHANGED asked /\ answer' = "aborted"
    /\ \/ asked.op = "AddAddress" /\ UNCHANGED <<held, route>>
       \/ /\ asked.op = "SetPrimaryAddress"
          /\ \E i \in Own : i # 1 /\ Becomes(Rewritten(Others, Others[1]), route[Family])
       \/ /\ asked.op = "RemoveAddress"
          /\ \E i \in Own : Becomes(Entered(RemoveAt(Others, i), Others[i]), route[Family])

\* An error of the kernel, or the end of the process.
Tear ==
    /\ answer = "running" /\ UNCHANGED asked /\ answer' \in {"error", "crashed"}
    /\ ToSet(held'[Family]) \subseteq ToSet(Others) \cup {asked.addr}
    /\ route'[Family] \in {route[Family], asked.gw, Nil}
    /\ \A f \in Fam \ {Family} : held'[f] = held[f] /\ route'[f] = route[f]

Next == Call \/ Refused \/ Add \/ Promote \/ Release \/ Undo \/ Tear

\* What a caller finds on the host is not of its making.
Init == answer = "none" /\ held \in [Fam -> Seq({r.addr : r \in Requests})]

Spec == Init /\ [][Next]_book
=============================================================================
