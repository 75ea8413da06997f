------------------------------ MODULE MCCheck ------------------------------
(* The three parts of --check, side by side: the check over one or two     *)
(* planned files (Check), its view of a volume's case rule over small      *)
(* directories (CaseProbe), and dates a few seconds around 1970 (Mtime).   *)
(* focus says which of them moves; Check is over, the variables of the     *)
(* others are Idle while they do not.                                      *)
EXTENDS Check, Integers

CONSTANTS
    a, b, xml, stray,
    Focuses,       \* which parts are looked at
    Disturbances,  \* whether another ia-get works in the directory of Check
    MaxEntries,    \* bound: entries of a directory in MCVolumes
    Volumes, Plans,   \* of CaseProbe
    Times, Top, Resolutions, NoDate,   \* of Mtime
    Idle

VARIABLES
    focus,
    \* those of CaseProbe
    volume, planned, caseStage, caseUnread, caseFiles, caseDirs, caseOthers, ci,
    caseFound, caseExtra,
    \* those of Mtime
    expected, server, resolution, mtime, last, warned, finding, origins

caseVars == <<volume, planned, caseStage, caseUnread, caseFiles, caseDirs,
              caseOthers, ci, caseFound, caseExtra>>
dateVars == <<expected, server, resolution, mtime, last, warned, finding, origins>>
allVars  == <<focus, vars, caseVars, dateVars>>

-----------------------------------------------------------------------------
(* Check *)

name(stem, parts) == [stem |-> stem, upper |-> FALSE, parts |-> parts]

One     == {<< <<name(a, 0)>> >>}
Two     == {<< <<name(a, 0)>>, <<name(b, 0)>> >>}
Meeting == {<< <<name(a, 0)>>, <<name(a, 1)>> >>}

MCXmlPath   == <<name(xml, 0)>>
MCStrayFile == <<name(stray, 0), name(a, 1)>>
MCStrayDir  == <<name(stray, 0)>>

-----------------------------------------------------------------------------
(* CaseProbe: entries and plans whose names differ by case, or in a symbol *)

MCPlans == {p \in SUBSET {<<"a">>, <<"A">>, <<"1">>, <<"d", "/", "1">>} :
                p # {} /\ Cardinality(p) <= 2}

DiskNames == {<<"a">>, <<"A">>, <<"1">>, <<"a", ".p">>, <<"A", ".P">>, <<"1", ".P">>,
              <<"d">>, <<"D">>, <<"d", "/", "1">>, <<"D", "/", "a">>}

MCVolumes ==
    LET listings == {t \in SUBSET DiskNames : Cardinality(t) <= MaxEntries}
    IN  [disk : UNION {[t -> {"file", "directory", "link"}] : t \in listings},
         folds : BOOLEAN]

Case == INSTANCE CaseProbe WITH
    stage <- caseStage, unread <- caseUnread, files <- caseFiles, dirs <- caseDirs,
    others <- caseOthers, found <- caseFound, extra <- caseExtra

CaseIdle == /\ volume = Idle /\ planned = Idle /\ caseStage = Idle
            /\ caseUnread = Idle /\ caseFiles = Idle /\ caseDirs = Idle
            /\ caseOthers = Idle /\ ci = Idle /\ caseFound = Idle /\ caseExtra = Idle

-----------------------------------------------------------------------------
(* Mtime *)

MCTimes == -1..3

Date == INSTANCE Mtime WITH None <- NoDate

DateIdle == /\ expected = Idle /\ server = Idle /\ resolution = Idle
            /\ mtime = Idle /\ last = Idle /\ warned = Idle
            /\ finding = Idle /\ origins = Idle

ASSUME PartsAssumption == Case!InputsAssumption /\ Date!InputsAssumption

-----------------------------------------------------------------------------
(* One part moves *)

CheckOver ==
    /\ list \in One /\ sized = {} /\ md5 = {}
    /\ options = [md5 |-> FALSE, strict |-> FALSE, whole |-> FALSE]
    /\ disturbed = FALSE /\ disk = [p \in AllPaths |-> "none"] /\ running = TRUE
    /\ stage = "done" /\ unread = {} /\ files = {} /\ dirs = {} /\ others = {}
    /\ cur = 2 /\ found = <<"missing">> /\ extra = {} /\ xmlMissing = FALSE
    /\ result = "problems"

PartsInit ==
    /\ focus \in Focuses
    /\ \/ focus = "check" /\ Init /\ disturbed \in Disturbances /\ CaseIdle /\ DateIdle
       \/ focus = "case" /\ Case!Init /\ CheckOver /\ DateIdle
       \/ focus = "date" /\ Date!Init /\ CheckOver /\ CaseIdle

CheckMoves == focus = "check" /\ Next /\ UNCHANGED <<focus, caseVars, dateVars>>
CaseMoves  == focus = "case" /\ Case!Next /\ UNCHANGED <<focus, vars, dateVars>>
DateMoves  == focus = "date" /\ Date!Next /\ UNCHANGED <<focus, vars, caseVars>>

PartsSpec == PartsInit /\ [][CheckMoves \/ CaseMoves \/ DateMoves]_allVars

-----------------------------------------------------------------------------
(* The properties of all parts *)

\* Type correctness of every part.
PartsTypeOK ==
    /\ focus = "check" => TypeOK
    /\ focus = "case"  => Case!TypeOK
    /\ focus = "date"  => Date!TypeOK

\* See Check and CaseProbe: the verdict is "clean" exactly for directories that a
\* download would leave alone, with --strict for those with nothing else in
\* them; and categories and extras are those the volume itself would give,
\* whatever its case rule.
ReportIsExact ==
    /\ CleanIsComplete /\ StrictCleanIsExact
    /\ focus = "case" => Case!CategoryIsRight /\ Case!ExtraIsRight

\* See Mtime: dates are not made up, a kept file has the published one, the
\* check compares it, and further runs leave it alone.
DatesAreRight ==
    /\ [](focus = "date" => /\ Date!NothingIsMadeUp /\ Date!KeptHasTheDate
                           /\ Date!DateIsCompared)
    /\ [][focus = "date" => Date!Settled]_allVars
=============================================================================
