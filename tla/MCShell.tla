------------------------------- MODULE MCShell -------------------------------
\* The shell on every line of at most LENGTH tokens, and on some longer ones.
EXTENDS Shell

CONSTANTS LENGTH

MCTokens == Tokens \ {">>"}

Short == UNION {[1 .. n -> MCTokens] : n \in 0 .. LENGTH}

\* Blocks, and commands of two words or more.
Medium == {<<"(", x, y, ")">> : x, y \in MCTokens} \cup {<<"w", x, "w", y>> : x, y \in MCTokens}

\* A pipeline of three, pipelines of blocks, lines after one in the background that
\* leaves no process for the shell's child.
Longer == {
  << <<"w", "|", "w", "|", "w">> >>,
  << <<"w", ">", "w", "|", "w", "<", "w">> >>,
  << <<"(", "w", ";", "w", ")", "|", "w">> >>,
  << <<"(", "w", "|", "w", ")", ">", "w", "&">>, <<"w">> >>,
  << <<"w", "|", "w", "|", "w", "|", "w", "&">>, <<"w">> >>,
  << <<"w", "&">>, <<"w", "|", "w">> >>}

MCScripts == {<<l>> : l \in Short \cup Medium} \cup Longer
=============================================================================
