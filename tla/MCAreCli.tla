------------------------------- MODULE MCAreCli -------------------------------
\* Two files, in the order of their paths, and what they and are.toml may hold.
EXTENDS AreCli

Source(items, tidy, comments) == [items |-> items, tidy |-> tidy, comments |-> comments]

MCFiles == <<"a.are", "main.are">>
MCContents ==
    {Source("service", FALSE, FALSE), Source("bare", TRUE, FALSE), Source("types", FALSE, FALSE),
     Source("types", FALSE, TRUE), Source("wrong", FALSE, FALSE), Source("broken", FALSE, FALSE)}

Toml(target, server, capabilities, network_listen, process_spawn) ==
    [target |-> target, entry |-> "main.are", server |-> server, capabilities |-> capabilities,
     network_listen |-> network_listen, process_spawn |-> process_spawn]

MCTemplate == Toml("server", "host:1", TRUE, {"host:1"}, FALSE)
MCManifests ==
    {MCTemplate,
     Toml("server", "host:2", TRUE, {"host:1"}, FALSE),
     Toml("server", None, TRUE, {}, FALSE),
     Toml("library", "host:1", TRUE, {"host:1", "host:2"}, FALSE),
     Toml("server", "host:1", FALSE, {}, FALSE)}
=============================================================================
