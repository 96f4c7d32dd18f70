------------------------------ MODULE Sections ------------------------------
(***************************************************************************)
(* The output of the commands that secontrol runs: sections, each printed  *)
(* below a line with its name, and parseSections (internal/app/app.go),    *)
(* which takes them apart again. Lines are without spaces around them.     *)
(***************************************************************************)
EXTENDS SequencesExt

Headers == {"HOST", "OS", "VIRT", "ACCESS", "UPTIME", "LOAD", "CPU", "MEM", "DISK", "STORAGE",
            "INTERFACES", "SERVICES", "DOCKER", "IMAGE_ID", "RESTART", "HEALTH", "COMPOSE",
            "NETWORKS", "MOUNTS", "IMAGE_META", "REGISTRY"}

(* An empty line; and the section that lines belong to before the first.   *)
Blank == ""

(* printf 'NAME\n' before each section but the first: '\nNAME\n'.          *)
Written(blocks) ==
    FlattenSeq([i \in 1..Len(blocks) |-> <<blocks[i].header>> \o blocks[i].lines \o <<Blank>>])

(* A blank line is lost as long as the section is empty.                   *)
AddLine(text, line) == IF text = <<>> /\ line = Blank THEN <<>> ELSE Append(text, line)

(* Mutant: a header is missing in the list.                                *)
NextLineUnknown(acc, line) ==
    IF line \in Headers \ {"IMAGE_META"} THEN [acc EXCEPT !.current = line]
    ELSE IF acc.current = Blank THEN acc
    ELSE [acc EXCEPT !.text[acc.current] = AddLine(@, line)]

NextLine(acc, line) ==
    IF line \in Headers THEN [acc EXCEPT !.current = line]
    ELSE IF acc.current = Blank THEN acc
    ELSE [acc EXCEPT !.text[acc.current] = AddLine(@, line)]

NothingRead == [current |-> Blank, text |-> [h \in Headers |-> <<>>]]

(* The loop over the lines.                                                *)
Reading(out) ==
    LET read[i \in 0..Len(out)] ==
          IF i = 0 THEN NothingRead ELSE NextLine(read[i - 1], out[i])
    IN  read

parseSections(out) == Reading(out)[Len(out)].text

KeepLine(lines, line) == IF line = Blank THEN lines ELSE Append(lines, line)

(* The loop of nonEmptyLines.                                              *)
Keeping(text) ==
    LET kept[i \in 0..Len(text)] == IF i = 0 THEN <<>> ELSE KeepLine(kept[i - 1], text[i])
    IN  kept

nonEmptyLines(text) == Keeping(text)[Len(text)]

=============================================================================
