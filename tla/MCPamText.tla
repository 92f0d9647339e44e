----------------------------- MODULE MCPamText -----------------------------
(* Small instances of PamText for TLC.                                      *)
EXTENDS PamText

\* Every kind of line but the tab-separated call.
SpacedLines == TypedKinds \ {"howdytab"}
=============================================================================
