----------------------------- MODULE MCPrograms -----------------------------
(***************************************************************************)
(* What a program goes through: it is compiled and run, it asks for a      *)
(* field of a document, it is pushed over the serial line.  The three      *)
(* share no state; where one of them runs the others have nothing to do.   *)
(***************************************************************************)
EXTENDS MCSpell, MCJsonProbe, MCSerialLink

NoProgram ==
    /\ src = Program1("Python", one) /\ lim = Limit(0, 0, MCNever, {})
    /\ shipped = Rejected /\ device = Rejected /\ sync = None /\ async = None

NoFetch == doc = Null /\ path = <<>> /\ acc = <<>> /\ result = NotFound("no fetch")

NoLink ==
    /\ up = <<>> /\ down = <<>> /\ line = <<>> /\ got = <<>> /\ resets = 0
    /\ host = [reading |-> FALSE, line |-> <<>>]
    /\ session = [Calm EXCEPT !.requests = 0]

ProgramsInit ==
    \/ SpellInit /\ NoFetch /\ NoLink
    \/ NoProgram /\ ProbeInit /\ NoLink
    \/ NoProgram /\ NoFetch /\ Init

ProgramsNext ==
    \/ SpellNext /\ UNCHANGED <<probeVars, linkVars>>
    \/ ProbeNext /\ UNCHANGED <<spellVars, linkVars>>
    \/ Next /\ UNCHANGED <<spellVars, probeVars>>

Programs ==
    /\ ProgramsInit /\ [][ProgramsNext]_<<spellVars, probeVars, linkVars>>
    /\ LinkFairness
=============================================================================
