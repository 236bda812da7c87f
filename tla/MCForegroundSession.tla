------------------------- MODULE MCForegroundSession -------------------------
EXTENDS ForegroundSession, TLC
MCRoles == <<"haproxy">>
MCExpected == ("haproxy" :> {"a"})
=============================================================================
