---------------------------- MODULE MCTabStrip ----------------------------
(* Four menu entries: one with a search box, two that share a url and one    *)
(* without a url; two windows, one of them with a single tab.                *)
EXTENDS TabStrip
CONSTANTS orders, system, setting, monitor, settingUrl, w1, w2
MCPages == {orders, system, setting, monitor}
MCWindows == {w1, w2}
MCRoom == [w \in MCWindows |-> IF w = w1 THEN 3 ELSE 1]
MCUrlOf == [p \in MCPages |-> IF p = monitor THEN Blank
                              ELSE IF p = orders THEN orders ELSE settingUrl]
=============================================================================
