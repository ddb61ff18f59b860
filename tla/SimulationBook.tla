--------------------------- MODULE SimulationBook ---------------------------
(***************************************************************************)
(* What the simulations promise to whoever confirms and quotes them, as if *)
(* every request wrote all it writes, and read all it reads, at one moment *)
(* after it was asked.  Only when it is asked is the status looked at.     *)
(***************************************************************************)
EXTENDS Naturals, Sequences, FiniteSets

CONSTANTS
    Tenants,
    Slots        \* the simulations there can be

VARIABLES
    rows,        \* tenant, code and whether there is a client
    status,      \* rascunho, confirmado or arquivado
    content,     \* terms, fees, extras and schedule, all of them
    quotes,      \* what the proposal of a simulation quotes
    asked        \* what was asked of which simulation and is not done

Init == /\ rows = <<>> /\ status = <<>> /\ content = <<>>
        /\ quotes = [s \in Slots |-> {}]
        /\ asked = {}

Numbered(t) == Cardinality({s \in DOMAIN rows : rows[s].tenant = t})

\* With a client it is confirmed from the first, without one a draft.
Add(t, linked) ==
    /\ rows' = Append(rows, [tenant |-> t, codigo |-> Numbered(t) + 1,
                             linked |-> linked])
    /\ status' = Append(status, IF linked THEN "confirmado" ELSE "rascunho")
    /\ content' = Append(content, content'[Len(rows) + 1])
    /\ UNCHANGED <<quotes, asked>>

Before == [update |-> "rascunho", confirm |-> "rascunho",
           propose |-> "confirmado"]

Ask(op, s) == /\ status[s] = Before[op]
              /\ op = "propose" => rows[s].linked
              /\ asked' = asked \cup {<<op, s>>}
              /\ UNCHANGED <<rows, status, content, quotes>>

\* A request is done, or given up; another may have asked for the same.
Done(op, s) == /\ <<op, s>> \in asked
               /\ asked' \in {asked, asked \ {<<op, s>>}}

GiveUp(op, s) == Done(op, s) /\ UNCHANGED <<rows, status, content, quotes>>

Revise(s) == /\ Done("update", s)
             /\ content' = [content EXCEPT ![s] = content'[s]]
             /\ UNCHANGED <<rows, status, quotes>>

Confirm(s) == /\ Done("confirm", s)
              /\ status' = [status EXCEPT ![s] = "confirmado"]
              /\ UNCHANGED <<rows, content, quotes>>

Archive(s) == /\ status' = [status EXCEPT ![s] = "arquivado"]
              /\ UNCHANGED <<rows, content, quotes, asked>>

\* One proposal for a simulation, of all its content.
Quote(s) == /\ Done("propose", s)
            /\ quotes[s] = {}
            /\ quotes' = [quotes EXCEPT ![s] = {content[s]}]
            /\ UNCHANGED <<rows, status, content>>

Next == \/ \E t \in Tenants, linked \in BOOLEAN : Add(t, linked)
        \/ \E s \in DOMAIN rows :
              \/ \E op \in DOMAIN Before : Ask(op, s) \/ GiveUp(op, s)
              \/ Revise(s) \/ Confirm(s) \/ Archive(s) \/ Quote(s)

Spec == Init /\ [][Next]_<<rows, status, content, quotes, asked>>
=============================================================================
