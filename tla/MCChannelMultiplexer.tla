------------------------ MODULE MCChannelMultiplexer ------------------------
(* Instances of ChannelMultiplexer for TLC. *)
EXTENDS ChannelMultiplexer

\* Services are opened by the front end only, as ServiceConnectionProvider does.
FrontendOpens == {"frontend"} \X Id

\* Each side opens the ids of its own services.
SplitOpens == {<<"frontend", "a">>, <<"backend", "b">>}

\* Both sides open every id.
BothOpen == End \X Id
=============================================================================
