-------------------------- MODULE MCParticipantSetup --------------------------
(***************************************************************************)
(* The certification of one mouse whose address on the bus may not be the  *)
(* one the topology reports, beside another device of the same root.       *)
(***************************************************************************)
EXTENDS ParticipantSetup

MCHint    == 3
MCMouse   == <<1, 5>>
MCStreams == {<<1, MCHint>>, MCMouse}
MCRoutes  == <<1>>

\* In a burst, the mouse reports on an endpoint that is not listed beside a quiet
\* device at the hinted address; in a glimpse the quiet one reports alone. A header has
\* no records, and noise is no PCAP.
MCEnd == [burst |-> "whole", glimpse |-> "whole", header |-> "whole", noise |-> "bad"]

MCCount(completions, changes) == [completions |-> completions, changes |-> changes]

MCSeen ==
  [c \in DOMAIN MCEnd |->
     [k \in MCStreams \X {1, 2} |->
        IF c = "burst" /\ k = <<MCMouse, 2>> THEN MCCount(18, 17)
        ELSE IF c \notin {"header", "noise"} /\ k = <<<<1, MCHint>>, 1>> THEN MCCount(2, 1)
        ELSE MCCount(0, 0)]]

MCInventories ==
  {[complete |-> TRUE, present |-> {"m"}, proven |-> proven] : proven \in {{}, {"m"}}}
===============================================================================
