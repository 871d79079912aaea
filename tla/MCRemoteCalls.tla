---------------------------- MODULE MCRemoteCalls ----------------------------
EXTENDS RemoteCalls

\* One status of each class that some adapter tells apart.
SomeStatuses == {200, 302, 401, 402, 404, 429, 500, 503}
=============================================================================
