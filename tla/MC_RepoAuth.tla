----------------------------- MODULE MC_RepoAuth -----------------------------
EXTENDS RepoAuth, TLC
CONSTANTS i1, i2, broken
Symmetry == Permutations(SignIns)

Section(given, gs) == [given |-> given, groups |-> gs]
F(own, def) == [own |-> own, def |-> def]
Whole(gs) == Section(Fields, gs)

\* No section, an own one, groups to be sorted in front of and into the own
\* ones, an own server without its domain, groups that leave room in their
\* array, no own groups, no default to complete from.
MCFiles == {F(NoSection, NoSection), F(NoSection, Whole(<<1>>)),
            F(Whole(<<2>>), Whole(<<1>>)),
            F(Section({"base", "domain"}, <<1, 2>>), Whole(<<1>>)),
            F(Section({"server"}, <<3>>), Whole(<<1>>)),
            F(Section({}, <<1, 1>>), Whole(<<1>>)),
            F(Section({}, <<>>), Whole(<<1>>)),
            F(Section({"domain"}, <<1>>), NoSection)}
=============================================================================
