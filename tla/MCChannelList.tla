--------------------------- MODULE MCChannelList ----------------------------
EXTENDS ChannelList

CONSTANTS c1, a1, a2

\* Members of the group only, or everybody.
MCLists == {NoLists, [allow |-> Groups, deny |-> {}]}
=============================================================================
