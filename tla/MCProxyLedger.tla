--------------------------- MODULE MCProxyLedger ---------------------------
EXTENDS ProxyLedger

\* One window the headers carry and one per-model window.
MCWindows  == {"5h"}
MCScoped   == {"fable"}
MCPercents == {20, 95, 105}
MCResets   == {2, 5}

L(name, pct, reset, active) == [name |-> name, pct |-> pct, reset |-> reset, active |-> active]

FiveHour == {L("5h", pct, reset, FALSE) : pct \in MCPercents, reset \in {2, NoReset}} \cup {L("5h", 105, 5, TRUE)}
Fable    == {L("fable", pct, NoReset, FALSE) : pct \in MCPercents}

\* Samples that name every window, and some of the older response shape that name none
\* of those the headers carry.
Records == {{}} \cup {{b} : b \in Fable} \cup {{a} : a \in FiveHour} \cup {{a, b} : a \in FiveHour, b \in Fable}
=============================================================================
