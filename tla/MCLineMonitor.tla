--------------------------- MODULE MCLineMonitor ---------------------------
(* Instances of LineMonitor for TLC: the thresholds are scaled down, their *)
(* order is kept.                                                          *)
EXTENDS LineMonitor

(* A line that stays plugged in: idle, ringing, in a call, in between.     *)
PluggedIn ==
    {<<"onhook", 1>>, <<"ring", 0>>, <<"offhook", 1>>, <<"gap", 1>>}

(* The same with a cable that can be pulled at any moment.                 *)
AnyLine == PluggedIn \cup {<<"cut", 1>>}

(* A line on which calls come in and are answered.                         *)
CallLine == PluggedIn \ {<<"gap", 1>>}

OnHookLine == <<"onhook", 1>>
=============================================================================
