------------------------------ MODULE MC_Workspace ------------------------------
(***************************************************************************)
(* The features that are explored together.                                *)
(***************************************************************************)
EXTENDS Workspace

MCScopes ==
    {{"cli", "themes", "decisions", "a"},              \* two who derive themes
     {"sources", "crash", "decisions", "a"},           \* images for themes and for tasks
     {"requests", "crash", "decisions", "a", "b"},     \* two requests to their exports
     {"requests", "tools", "decisions", "a"},          \* no tool is configured
     {"improvement", "decisions", "a"},                \* one case of any sort
     {"improvement", "longer", "decisions", "a"},      \* what comes after a case
     {"improvement", "again", "decisions", "a"},       \* case after case
     {"sources", "cli"},                               \* images and a command line
     {"backup", "themes", "a"},                        \* a backup during calls
     {"backup", "restore", "themes", "a"}}             \* a restore during calls
=============================================================================
