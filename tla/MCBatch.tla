------------------------------ MODULE MCBatch ------------------------------
(* Batch over two tasks whose paths, or whose ".part" paths, may meet: one *)
(* run in which anything may go wrong (rough), or runs repeated until one  *)
(* is left alone, of which no step fails.                                  *)
EXTENDS Batch

CONSTANTS
    a, b,
    Courses     \* which of them are looked at: rough is TRUE or FALSE

VARIABLE rough

name(stem, parts) == [stem |-> stem, upper |-> FALSE, parts |-> parts]

\* a and b/a
Apart == {<< <<name(a, 0)>>, <<name(b, 0), name(a, 0)>> >>}

\* An item that lists a file and its ".part", in either order
Meeting == {<< <<name(a, 0)>>, <<name(a, 1)>> >>, << <<name(a, 1)>>, <<name(a, 0)>> >>}

\* Without a failure --stop-on-error makes no difference.
CourseInit == /\ rough \in Courses
              /\ IF rough THEN Init ELSE SmoothInit /\ ~stopOnError

RoughStep == rough /\ (BatchStep \/ Stop \/ Kill)
CourseNext == (RoughStep \/ (~rough /\ Smooth)) /\ UNCHANGED rough

\* The fairness of Batch's Spec for one course, of its SmoothSpec for the other
CourseSpec ==
    /\ CourseInit
    /\ [][CourseNext]_<<vars, rough>>
    /\ WF_vars(Progress /\ (rough \/ NoFailure))
    /\ SF_vars(~rough /\ Delivered) /\ SF_vars(~rough /\ Refetched)
    /\ WF_vars(~rough /\ RunAgain)

\* See Batch: every run ends, and left alone at last, with no failures, the
\* program completes the directory.
RunsComplete == EveryRunEnds /\ (~rough => EventuallyComplete)
=============================================================================
