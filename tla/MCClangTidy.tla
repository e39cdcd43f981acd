---------------------------- MODULE MCClangTidy -----------------------------
EXTENDS ClangTidy

MCChecks == {"c1", "c2"}

Text == L("text")
IgEnd == L("igend")
Group == L("group")
Enable == L("enable")
Default == ChecksL(NoChecks)

\* generated projects of up to four lines; projects in which the IDE turned
\* the analysis on without choosing checks (Enable, no checks); and projects
\* in which it turned it on with checks (Enable and one ClangTidyChecks)
Generated == BoundedSeq({Text, IgEnd}, 4)
MCProjects ==
  Generated
  \cup {p \o <<Enable>> : p \in BoundedSeq({Text, IgEnd}, 2)}
  \cup {p \o <<Enable, ChecksL(c)>> : p \in BoundedSeq({Text, IgEnd}, 2), c \in MCChecks}

\* a PropertyGroup with both elements, in either order
MCFragments == {<<Group, Enable, Default, Group>>, <<Group, Default, Enable, Group>>}

=============================================================================
