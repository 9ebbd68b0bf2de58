---------------------- MODULE MCContinuableExtraction ----------------------
(* A small instance of ContinuableExtraction for TLC. *)
EXTENDS ContinuableExtraction

Report(d, o, ocr, blocks) ==
    [disposition |-> d, omissions |-> o, ocr |-> ocr, blocks |-> blocks]

\* A clean range, a larger one with a known omission, and one the Kernel cannot
\* project.
MCReports ==
    {Report("complete", {}, 1, 1), Report("partial_known", {"images"}, 0, 2),
     Report("unsupported", {}, 4, 0)}

MCEndings ==
    {[state |-> "cancelled", reason |-> "CANCELLED"],
     [state |-> "failed", reason |-> "REPORTED_BY_HOST"]}

\* Two large ranges do not fit.
MCLimits == [ranges |-> 2, blocks |-> 3, retries |-> 1]
=============================================================================
