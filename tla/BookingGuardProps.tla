-------------------------- MODULE BookingGuardProps -------------------------
(* What the guarded collection of Booking pages promises.                    *)
EXTENDS BookingGuard

\* A row priced from rate cells, that is one of a target whose panel fixes
\* exactly one product, has them from a page that was cut off the network: its
\* handoff was verified, no request was on the wire afterwards, and each one
\* heard of was aborted ("process death never fills a gap").  A row priced
\* from the page's text has no such promise.
ReadingsAreCutOff ==
    capture.price = "cells" =>
        /\ guard.handoff = "good"
        /\ leaked = {}
        /\ seen \subseteq aborted

\* One owned browser process at a time: the next target is reached only when
\* the process of the last one is known to be gone ("never advance to another
\* target on timeout").
OneBrowserAtATime == pc = "next" => browser.proc # "alive"

\* A 403 or 429 of the site, however late it is heard, ends the collection
\* at the target it answered.
RefusalEndsCollection == pc = "next" => limited = {}

\* A collection ends, unless it stands for ever in a call without a time
\* limit whose browser neither answers nor disconnects: routes, quiet, drain,
\* kill and the rest never keep it.
CollectionEnds ==
    <>(pc \in Over) \/ <>[](pc \in Calling /\ ~Answered)
=============================================================================
