------------------------------ MODULE CrawlLine ------------------------------
(***************************************************************************)
(* What the crawler promises whoever asks it for a feed's archive: feeds   *)
(* stand in one line, each at most once, and are crawled one at a time in  *)
(* the order they came. One that stands in line or is being crawled is not *)
(* added again. From the moment the crawler is told to stop nobody joins   *)
(* and nothing new is crawled, and unless it is abandoned it is closed     *)
(* only after the last crawl.                                              *)
(***************************************************************************)
EXTENDS Integers, Sequences

CONSTANT Feeds

VARIABLES
  line,     \* the feeds that wait, in order
  crawled,  \* the feed that is being crawled, if any
  phase     \* "open", "stopping", "closed", "abandoned"

Standing == {line[i] : i \in 1 .. Len(line)}

Init == line = <<>> /\ crawled = {} /\ phase = "open"

Join(f) ==
  /\ phase = "open" /\ f \notin Standing \cup crawled
  /\ line' = Append(line, f)
  /\ UNCHANGED <<crawled, phase>>

\* The crawler is free, and the first in line is next.
Begin ==
  /\ phase = "open" /\ crawled = {} /\ line # <<>>
  /\ crawled' = {Head(line)} /\ line' = Tail(line)
  /\ UNCHANGED phase

End ==
  /\ crawled # {} /\ crawled' = {}
  /\ UNCHANGED <<line, phase>>

Stop ==
  /\ phase = "open" /\ phase' = "stopping"
  /\ UNCHANGED <<line, crawled>>

\* Those still in line are sent away once the last crawl is over.
Disperse ==
  /\ phase # "open" /\ crawled = {} /\ line' = <<>>
  /\ UNCHANGED <<crawled, phase>>

Close ==
  /\ phase = "stopping" /\ crawled = {} /\ line = <<>>
  /\ phase' = "closed"
  /\ UNCHANGED <<line, crawled>>

Abandon ==
  /\ phase = "stopping" /\ phase' = "abandoned"
  /\ UNCHANGED <<line, crawled>>

\* A crash, or a start after a stop, forgets the line.
Restart == line' = <<>> /\ crawled' = {} /\ phase' = "open"

Next ==
  \/ \E f \in Feeds : Join(f)
  \/ Begin \/ End \/ Stop \/ Disperse \/ Close \/ Abandon \/ Restart

Spec == Init /\ [][Next]_<<line, crawled, phase>>
=============================================================================
