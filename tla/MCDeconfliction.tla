-------------------------- MODULE MCDeconfliction ---------------------------
EXTENDS Deconfliction, TLC

Plain(cells, buffer) ==
    [geometry |-> "polygon", cells |-> cells, buffer |-> buffer,
     starts |-> 1, ends |-> 2, low |-> 1, high |-> 2, ref |-> "WGS84"]

Square == Plain({<<1, 0>>}, 1)
Bar == Plain({<<3, 0>>, <<3, 1>>}, 0)
Above == [Square EXCEPT !.low = 3, !.high = 4]
Later == [Square EXCEPT !.starts = 2, !.ends = 3]
LinkedSeaLevel == [Bar EXCEPT !.geometry = "uri", !.ref = "MSL"]

\* Square and Bar touch; Above and Later miss both, one in altitude and one in
\* time; the linked volume cannot be compared with any of them.
MCVolumeSets == {{Square}, {Above}}
MCChangedSets == {{LinkedSeaLevel}}
MCAddedVolumes == {Bar}
MCSetups == {[store |-> "memory", dss |-> FALSE],
             [store |-> "postgres", dss |-> TRUE]}
MCPeerIntents == {[state |-> "Nonconforming", nominal |-> {Later}, off |-> {Bar}]}

Renamings == Permutations(Checkers) \cup Permutations(LocalIntents)

=============================================================================
