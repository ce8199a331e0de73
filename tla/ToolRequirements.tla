--------------------------- MODULE ToolRequirements ---------------------------
(***************************************************************************)
(* util/check_tool_requirements.py: whether the installed tools are recent *)
(* enough.  A version is abstracted to its numbers: parts, the sequence of *)
(* them, for most tools; year, month, service pack and patch for VCS; and  *)
(* cruft, whether something follows them.  NoVersion is a text that is not *)
(* a version, or none at all since the tool could not be run.              *)
(***************************************************************************)
EXTENDS Integers, Sequences

NoVersion == [parts |-> <<>>, cruft |-> FALSE]
NoNumbers == <<>>

\* packaging.version.Version: missing numbers are zero.
PartOf(v, i) == IF i <= Len(v) THEN v[i] ELSE 0

OlderThan(v, w) ==
  \E i \in 1 .. Len(v) + Len(w) :
    /\ PartOf(v, i) < PartOf(w, i)
    /\ \A j \in 1 .. i - 1 : PartOf(v, j) = PartOf(w, j)

\* Two numbers written one after the other, the second without leading zeros.
Joined(m, n) ==
  m * (IF n < 10 THEN 10 ELSE IF n < 100 THEN 100 ELSE IF n < 1000 THEN 1000 ELSE 10000) + n

\* Mutant of VcsSemver: a service pack weighs ten patches.
VcsSemverTen(v, fromReq) ==
  IF v = NoVersion \/ (v.cruft /\ fromReq) THEN NoNumbers
  ELSE <<v.year, Joined(v.month, v.sp * 10 + v.patch)>>

\* VcsToolReq.to_semver: the service pack is weighed a hundred patches, and
\* the sum is appended to the month, not separated from it.
VcsSemver(v, fromReq) ==
  IF v = NoVersion \/ (v.cruft /\ fromReq) THEN NoNumbers
  ELSE <<v.year, Joined(v.month, v.sp * 100 + v.patch)>>

\* to_semver of the other tools.
ToSemver(tool, v, fromReq) ==
  CASE tool = "vcs" -> VcsSemver(v, fromReq)
    [] tool # "vcs" /\ v = NoVersion -> NoNumbers
    [] tool = "vivado" /\ v # NoVersion ->
         IF Len(v.parts) \in 2 .. 3 /\ ~v.cruft
           THEN <<v.parts[1], v.parts[2], PartOf(v.parts, 3)>> ELSE NoNumbers
    [] tool = "verible" /\ v # NoVersion ->
         IF Len(v.parts) = 3 /\ v.cruft THEN v.parts ELSE NoNumbers
    [] tool = "ninja" /\ v # NoVersion ->
         IF Len(v.parts) >= 3 THEN SubSeq(v.parts, 1, 3) ELSE NoNumbers
    [] OTHER -> IF v.cruft THEN NoNumbers ELSE v.parts

\* What the formats of the tools can carry; any other text is NoVersion.
\* Of VCS at most 99 patches, as to_semver assumes, and as many service packs.
VcsVersion == [year : Nat, month : 1 .. 12, sp : 0 .. 99, patch : 0 .. 99, cruft : BOOLEAN]
Numbered == [parts : Seq(Nat) \ {<<>>}, cruft : BOOLEAN]

VersionsOf(tool) ==
  CASE tool = "vcs" -> VcsVersion
    [] tool = "vivado" -> {v \in Numbered : Len(v.parts) \in 2 .. 3 /\ ~v.cruft}
    [] tool = "verible" -> {v \in Numbered : Len(v.parts) = 3 /\ v.cruft}
    [] tool = "ninja" -> {v \in Numbered : Len(v.parts) = 3}
    [] OTHER -> Numbered

\* ToolReq.check.
CheckTool(tool, need, have) ==
  LET min == ToSemver(tool, need, TRUE)
      actual == ToSemver(tool, have, FALSE)
  IN min # NoNumbers /\ actual # NoNumbers /\ ~OlderThan(actual, min)

-----------------------------------------------------------------------------
(* The requirements: for each tool what the file says of it, as a string    *)
(* (kind "string") or as a dictionary, whose keys may be missing, of the    *)
(* wrong type, or unknown; minIs and asNeeded say which.                    *)

Dict(raw) ==
  IF raw.kind = "string"
    THEN [kind |-> "dict", min |-> raw.min, minIs |-> "string", asNeeded |-> "absent", extra |-> FALSE]
    ELSE raw

Malformed(raw) ==
  LET d == Dict(raw) IN
  \/ d.kind # "dict"
  \/ d.minIs # "string"
  \/ d.asNeeded = "no bool"
  \/ d.extra

AsNeeded(raw) == Dict(raw).asNeeded = "yes"

CheckedTools(reqs, asked) == {t \in DOMAIN reqs : ~AsNeeded(reqs[t]) \/ t \in asked}

\* main: the exit status is 0.
ToolsAccepted(reqs, asked, installed) ==
  /\ \A t \in DOMAIN reqs : ~Malformed(reqs[t])
  /\ \A t \in CheckedTools(reqs, asked) : CheckTool(t, Dict(reqs[t]).min, installed[t])
  /\ asked \subseteq DOMAIN reqs

-----------------------------------------------------------------------------
\* The order in which VCS is released.
VcsOlder(v, w) ==
  \/ v.year < w.year
  \/ v.year = w.year /\ v.month < w.month
  \/ v.year = w.year /\ v.month = w.month /\ v.sp < w.sp
  \/ v.year = w.year /\ v.month = w.month /\ v.sp = w.sp /\ v.patch < w.patch

OneYear(v, w) == v.year = w.year /\ v.month # w.month

\* What the number says: of different months of a year a release with a service
\* pack counts as newer than one without, whichever is.
CountsAsRecent(have, need) ==
  IF OneYear(have, need) /\ (have.sp = 0) # (need.sp = 0) THEN have.sp # 0
                                                        ELSE ~VcsOlder(have, need)

\* Releases with fewer than ten service packs, or fewer than ten patches if they
\* have none: what is appended to the month then has three digits, or one.
Short(v) == IF v.sp = 0 THEN v.patch < 10 ELSE v.sp < 10
Told(v, w) == OneYear(v, w) => Short(v) /\ Short(w)
=============================================================================
