-------------------------- MODULE MCRealtimeClient --------------------------
(***************************************************************************)
(* The referendum page (frontend/app/referendum/page.tsx) for TLC: the     *)
(* connection banner on the national channel, and the panel and the table  *)
(* that show the same summary, on the referendum channel; the table may     *)
(* bring initial data. They mount together or one after the other, with or  *)
(* without an earlier client: the banner and the panel are on the home page *)
(* as well.                                                                *)
(***************************************************************************)
EXTENDS RealtimeClient

CONSTANTS banner, panel, table, summary

MCComponent == {banner, panel, table}
MCQuery == {summary}
MCChannelOf ==
    [c \in MCComponent |-> IF c = banner THEN "thailand" ELSE "referendum"]
MCSeeded == {table}
MCQueryOf == [c \in MCComponent |-> IF c = banner THEN None ELSE summary]
=============================================================================
