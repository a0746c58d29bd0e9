--------------------------- MODULE MCSettingsPage ---------------------------
(* Files, categories and rule lists for SettingsPage. *)
EXTENDS SettingsPage

Rule(target, threshold) == [target |-> target, threshold |-> threshold]
Config(s) == File("config", s)
Garbage == File("garbage", Defaults)

UserContents ==
    { NoFile, Garbage,
      Config([Defaults EXCEPT !.version = 2, !.autostart = TRUE]),
      Config([Defaults EXCEPT !.autostart = TRUE, !.warning = -1, !.critical = NaN]),
      Config([Defaults EXCEPT !.warning = 120 * Percent, !.critical = 90 * Percent,
                              !.rules = <<Rule("eth0", 1234567), Rule("", 5),
                                          Rule("eth0", 7), Rule("lan0", 0)>>]) }
\* 94.99999 and 95 percent differ in their seventh digit.
UserCategories == {<<95 * Percent - 1, 95 * Percent>>}
UserRules == { <<Rule("eth0", 1234567), Rule("eth0", 9)>> }
=============================================================================
