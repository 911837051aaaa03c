---------------------------- MODULE MCChatCache ----------------------------
\* The file of the repository, with short names (te for test), and names to
\* cache of which some begin others.  Two entries on the last line take 10 to 14
\* symbols: with BufLen 10 fgets reads them whole or cuts the second one before
\* its colon, its host, its comma or its id.  Two nicknames have a mark in them.
EXTENDS ChatCache

MCNames == {<<"s">>, <<"o">>, <<"n">>, <<"t">>, <<"t", "e">>, <<"t", "e", "n">>}
MCMarkedNames == {<<"n", ",", "t">>, <<"n", ":", "t">>}
MCShippedFile ==
    <<<<"s", ":", "localhost", ",", "1", "newline">>,
      <<"t", "e", ":", "localhost", ",", "2", "newline">>,
      <<"o", ":", "1.1.1.1", ",", "blank", "blank", "9", "newline">>>>
=============================================================================
