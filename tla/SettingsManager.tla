-------------------------- MODULE SettingsManager --------------------------
(***************************************************************************)
(* The settings (settings.cpp) and their store (settings_manager.cpp):     *)
(* what a file is read as, how values are repaired, and the save through a *)
(* temporary file.  A settings record keeps one switch of each kind: the   *)
(* autostart preference, the notification switch, the thresholds of one    *)
(* alert category, the traffic rules.  The levels of a category are        *)
(* doubles: they are counted here in hundred-thousandths of a percent.     *)
(***************************************************************************)
EXTENDS Integers, Sequences, Subsequences

CONSTANTS
    Contents,   \* what a user or another version may put into config.toml
    ThresholdPairs, \* <<warning, critical>> pairs the prompts accept
    RuleLists   \* rule lists the network alerts page can produce

CurrentVersion == 1   \* kCurrentConfigVersion
Percent == 100000
MaxLevel == 100 * Percent   \* kMaxPercentThreshold
MaxThreshold == 2000000   \* kMaxNetworkTrafficThreshold
NaN == MaxLevel + 1   \* stands for the double "nan", which no comparison holds of

Defaults ==
    [version |-> CurrentVersion, autostart |-> FALSE, notify |-> FALSE,
     warning |-> 80 * Percent, critical |-> 95 * Percent, rules |-> << >>]

\* Kinds of a file: "none", "half" (being written), "garbage" (no assignment can be
\* read), "config".
File(kind, s) == [kind |-> kind, content |-> s]
NoFile == File("none", Defaults)
Half == File("half", Defaults)

AlertRules == [target : STRING, threshold : Int]
AppSettings ==
    [version : Nat, autostart : BOOLEAN, notify : BOOLEAN, warning : Int, critical : Int,
     rules : Seq(AlertRules)]

ASSUME SettingsConstants ==
    /\ NoFile \in Contents
    /\ Contents \subseteq [kind : {"none", "garbage", "config"}, content : AppSettings]
    /\ ThresholdPairs \subseteq Int \X Int /\ RuleLists \subseteq Seq(AlertRules)

VARIABLES
    file,   \* config.toml
    tmp,    \* config.toml.tmp
    memory, \* settings_
    dirty   \* dirty_

-----------------------------------------------------------------------------
\* Comparisons with NaN are false.
Below(a, b) == a # NaN /\ b # NaN /\ a < b
AtLeast(a, b) == a # NaN /\ b # NaN /\ a >= b
Clamped(x, lo, hi) == IF Below(x, lo) THEN lo ELSE IF Below(hi, x) THEN hi ELSE x

\* applyEntry clamps each value as it is read.
Parsed(s) ==
    [s EXCEPT !.warning = Clamped(@, 0, MaxLevel), !.critical = Clamped(@, 0, MaxLevel)]

\* clampNetworkTrafficAlertRule
Repaired(rule) ==
    [rule EXCEPT !.threshold = IF @ = NaN THEN 0 ELSE Clamped(@, 0, MaxThreshold)]
RuleValid(rule) == rule.target # "" /\ rule.threshold > 0
RulesValid(rules) == Picked(rules, {k \in DOMAIN rules : RuleValid(rules[k])})

\* One rule per target (and type): the first stays.
FirstOfTarget(rules) ==
    Picked(rules, {k \in DOMAIN rules :
                        \A j \in DOMAIN rules : j < k => rules[j].target # rules[k].target})

FixedRules(rules) == FirstOfTarget(RulesValid([k \in DOMAIN rules |-> Repaired(rules[k])]))

\* clampAndFix: a warning level not under the critical one resets the category.
Fixed(s) ==
    LET w == Clamped(s.warning, 0, MaxLevel)
        c == Clamped(s.critical, 0, MaxLevel)
        broken == AtLeast(w, c)
    IN  [s EXCEPT !.warning = IF broken THEN Defaults.warning ELSE w,
                  !.critical = IF broken THEN Defaults.critical ELSE c,
                  !.rules = FixedRules(@)]

\* validate() finds no problem.
Valid(s) ==
    /\ s.version = CurrentVersion
    /\ \A level \in {s.warning, s.critical} : ~Below(level, 0) /\ ~Below(MaxLevel, level)
    /\ ~AtLeast(s.warning, s.critical)
    /\ \A k \in DOMAIN s.rules : RuleValid(s.rules[k]) /\ s.rules[k].threshold <= MaxThreshold

\* serializeSettings writes doubles with six significant digits: a level keeps them all
\* below ten percent, and a threshold below a million.
RoundedTo(unit, x) == unit * ((x + unit \div 2) \div unit)
SixDigits(x) ==
    IF x = NaN \/ x < 1000000 THEN x
    ELSE IF x < 10000000 THEN RoundedTo(10, x) ELSE RoundedTo(100, x)
Written(rules) == [k \in DOMAIN rules |-> [rules[k] EXCEPT !.threshold = SixDigits(@)]]
Serialized(s) ==
    [s EXCEPT !.warning = SixDigits(@), !.critical = SixDigits(@), !.rules = Written(@)]

-----------------------------------------------------------------------------
\* migrateConfigUnlocked: version 1 is the first and the parser accepts no lower one,
\* so a different version is a newer one, which is not migrated.
LoadedFrom(s) == Fixed(Parsed(s))

\* load(), but for the write of the defaults on the first launch.
Load(readable) ==
    LET loaded == LoadedFrom(file.content)
        usable == file.kind = "config" /\ readable /\ Valid(loaded)
    IN  /\ memory' = IF usable THEN loaded ELSE Defaults
        /\ dirty' = ~usable

\* updateSettings
StaysAsDirty == UNCHANGED dirty
MarksDirty == dirty' = TRUE

Update(next) ==
    /\ memory' = Fixed([next EXCEPT !.version = CurrentVersion])
    /\ MarksDirty

Reset == memory' = Defaults /\ dirty' = TRUE   \* resetToDefaults

\* writeSettingsFile: the temporary file is truncated, filled and flushed, and
\* renamed; each may fail, and a failed flush leaves the temporary file behind.
Truncates == tmp' = Half /\ UNCHANGED file
Flushes == tmp' = File("config", Serialized(memory)) /\ UNCHANGED file
Renames == file' = tmp /\ tmp' = NoFile /\ dirty' = FALSE
RenameFails == tmp' = NoFile /\ UNCHANGED <<file, dirty>>
=============================================================================
