--------------------------- MODULE MCConfigStore ---------------------------
(* Two processes, which are alike, and a file that holds one thing or not. *)
EXTENDS ConfigStore, TLC

Alike == Permutations(Processes)

Laws == INSTANCE FileLaws WITH Themes <- {"plain"}, Conditions <- {"above", "below"}

(* encodeConfig and parseFile: what a save writes is what the next load    *)
(* reads, whichever sections are empty.                                    *)
ASSUME WrittenIsRead == Laws!WrittenIsRead

(* removals: a write is silent exactly when nothing the file held is       *)
(* missing.                                                                *)
ASSUME SilentWhenNothingGoes == Laws!SilentWhenNothingGoes

(* sectionRemovals: a section mkt does not model is named before a write   *)
(* drops it.                                                               *)
ASSUME UnknownSectionIsNamed == Laws!UnknownSectionIsNamed

(* AddSymbol, RemoveSymbol: an addition is never asked about, a removal is *)
(* named in the spelling the list has.                                     *)
ASSUME AddIsSilentRemoveIsNamed == Laws!AddIsSilentRemoveIsNamed

(* validateConfig: each problem is one issue, whatever else the file has;  *)
(* `config set` never adds one.                                            *)
ASSUME EachProblemIsAnIssue == Laws!EachProblemIsAnIssue

(* canonicalNotes: a file in canonical spelling has nothing to note and    *)
(* routes the same symbols.                                                *)
ASSUME NotesGoAway == Laws!NotesGoAway

(* importer: each header finds its format, and one transaction reads the   *)
(* same in both.                                                           *)
ASSUME FormatsAgree == Laws!FormatsAgree

(* newTransactions: importing twice adds nothing, and no other portfolio's *)
(* log changes.                                                            *)
ASSUME ImportTwiceIsOnce == Laws!ImportTwiceIsOnce

(* runImport: a configuration that did not parse is never reported on as   *)
(* imported.                                                               *)
ASSUME DegradedImportFails == Laws!DegradedImportFails

=============================================================================
