------------------------------ MODULE MCSyntax ------------------------------
(* Template texts for TLC: one for every kind of expression, type, statement *)
(* and declaration that the printer has a template for, "$a" and "$b" being   *)
(* placeholders.                                                             *)
EXTENDS Templates

MCExpressionTexts ==
  {
    <<"null">>, <<"super", ".", "m", "(", "$a", ")">>, <<"new", ".", "target">>,
    <<"new", "$a", "<", "T", ">", "(", "$b", ")">>, <<"new", "x">>,
    <<"(", "[", "x", "=", "$a", ",", "...", "y", "]", ",", "{", "a", ":", "{", "b", "}", ",", "[", "$b", "]", ":",
      "d", "=", "1", "}", ")", "=>", "1">>,
    <<"<", "T", ",", ">", "(", "x", ":", "T", ")", ":", "x", "is", "T", "=>", "$a">>,
    <<"async", "function", "f", "(", "x", ",", ")", "{", "await", "$a", ";", "}">>,
    <<"{", "*", "g", "(", ")", "{", "yield", "$a", ";", "}", ",", "set", "z", "(", "v", ")", "{", "$b", ";", "}",
      ",", "str", ":", "1", "}">>, <<"$a", ".", "#p">>, <<"void", "$a">>, <<"x", "??=", "$a">>,
    <<"(", "{", "a", ",", "b", ":", "x", ".", "y", "=", "$a", "}", "=", "$b", ")">>,
    <<"async", "x", "=>", "{", "return", "$a", ";", "}">>, <<"$a", "instanceof", "$b">>, <<"[", ",", "$a", "]">>,
    <<"import", "(", "$a", ",", "$b", ")">>, <<"x">>, <<"1">>, <<"str">>, <<"quasi">>, <<"head", "$a", "tail">>,
    <<"$a", "quasi">>, <<"this">>, <<"[", "$a", ",", "...", "$b", "]">>,
    <<"{", "k", ":", "$a", ",", "[", "$b", "]", ":", "c", ",", "d", "}">>,
    <<"{", "async", "m", "(", ")", "{", "$a", ";", "}", ",", "get", "z", "(", ")", "{", "}", "}">>,
    <<"$a", ".", "p">>, <<"$a", "[", "$b", "]">>, <<"$a", "?.", "p">>, <<"$a", "?.", "[", "$b", "]">>,
    <<"$a", "(", "$b", ")">>, <<"$a", "?.", "(", "$b", ")">>, <<"$a", "<", "T", ">", "(", "b", ")">>,
    <<"new", "$a", "(", "$b", ")">>, <<"import", "(", "$a", ")">>, <<"import", ".", "meta">>, <<"-", "$a">>,
    <<"+", "$a">>, <<"!", "$a">>, <<"typeof", "$a">>, <<"delete", "$a", ".", "p">>, <<"++", "x", ".", "y">>,
    <<"x", "--">>, <<"$a", "+", "$b">>, <<"$a", "-", "$b">>, <<"$a", "*", "$b">>, <<"$a", "**", "$b">>,
    <<"$a", "<", "$b">>, <<"$a", "in", "$b">>, <<"$a", "==", "$b">>, <<"$a", "&", "$b">>, <<"$a", "|", "$b">>,
    <<"$a", "&&", "$b">>, <<"$a", "||", "$b">>, <<"$a", "??", "$b">>, <<"$a", "<<", "$b">>, <<"x", "=", "$b">>,
    <<"x", ".", "y", "+=", "$b">>, <<"[", "x", "]", "=", "$b">>, <<"$a", "?", "$b", ":", "c">>,
    <<"c", "?", "$a", ":", "$b">>, <<"$a", ",", "$b">>, <<"await", "$a">>,
    <<"function", "*", "(", ")", "{", "yield", "$a", ";", "yield", "*", "$b", ";", "}">>,
    <<"async", "(", "x", ")", "=>", "$a">>, <<"(", "x", "=", "$b", ",", "...", "y", ")", "=>", "{", "$a", ";", "}">>,
    <<"function", "(", "x", ":", "T", ")", ":", "T", "{", "return", "$a", ";", "}">>,
    <<"class", "extends", "c", "{", "[", "$b", "]", "=", "$a", ";", "static", "{", "c", ";", "}", "}">>,
    <<"class", "extends", "$a", "{", "static", "{", "$b", ";", "}", "}">>, <<"$a", "as", "T">>,
    <<"$a", "as", "T", "[", "]">>, <<"$a", "satisfies", "T">>, <<"$a", "!">>, <<"<", "T", ">", "$a">>,
    <<"$a", "<", "T", ">">>
  }

MCTypeTexts ==
  {
    <<"{", "-", "readonly", "[", "K", "in", "keyof", "$a", "as", "$b", "]", "-", "?", ":", "T", "}">>,
    <<"{", "+", "readonly", "[", "K", "in", "$a", "]", "+", "?", ":", "$b", "}">>,
    <<"abstract", "new", "(", ")", "=>", "$a">>,
    <<"<", "T", "extends", "$a", ">", "(", "x", "?", ":", "T", ",", "...", "y", ":", "$b", ")", "=>", "T">>,
    <<"T", "extends", "infer", "U", "extends", "$a", "?", "U", ":", "$b">>, <<"unique", "symbol">>,
    <<"readonly", "$a", "[", "]">>, <<"typeof", "import", "(", "str", ")">>,
    <<"typeof", "a", ".", "b", "<", "$a", ">">>, <<"import", "(", "str", ")", ".", "A", ".", "B", "<", "$a", ">">>,
    <<"[", "x", "?", ":", "$a", ",", "...", "y", ":", "$b", "]">>, <<"A", ".", "B", "<", "$a", ">">>, <<"null">>,
    <<"true">>, <<"str">>, <<"quasi">>,
    <<"{", "readonly", "x", "?", ":", "$a", ",", "new", "(", ")", ":", "$b", "}">>, <<"T">>, <<"string">>, <<"this">>,
    <<"$a", "[", "]">>, <<"$a", "[", "$b", "]">>, <<"$a", "|", "$b">>, <<"$a", "&", "$b">>,
    <<"(", "x", ":", "$a", ")", "=>", "$b">>, <<"new", "(", "x", ":", "$a", ")", "=>", "$b">>,
    <<"$a", "extends", "$b", "?", "T", ":", "U">>, <<"T", "extends", "U", "?", "$a", ":", "$b">>, <<"keyof", "$a">>,
    <<"[", "$a", ",", "x", ":", "$b", "]">>, <<"[", "$a", "?", ",", "...", "$b", "]">>,
    <<"{", "x", ":", "$a", ";", "m", "(", "y", ":", "$b", ")", ":", "T", "}">>,
    <<"{", "[", "K", "in", "$a", "]", ":", "$b", "}">>, <<"typeof", "x">>, <<"T", "<", "$a", ",", "$b", ">">>,
    <<"-", "1">>, <<"head", "$a", "tail">>, <<"import", "(", "str", ")", ".", "T">>,
    <<"T", "extends", "infer", "U", "?", "$a", ":", "$b">>, <<"(", "x", ":", "T", ")", "=>", "x", "is", "$a">>
  }

MCStatementTexts ==
  {
    <<"import", "a", ",", "{", "b", "as", "c", ",", "type", "d", "}", "from", "str", ";">>,
    <<"import", "*", "as", "n", "from", "str", ";">>, <<"import", "type", "a", "from", "str", ";">>,
    <<"import", "str", ";">>, <<"import", "a", "=", "require", "(", "str", ")", ";">>,
    <<"import", "a", "=", "b", ".", "c", ";">>, <<"export", "{", "a", "as", "b", ",", "c", "}", "from", "str", ";">>,
    <<"export", "type", "{", "a", "}", ";">>, <<"export", "*", "as", "n", "from", "str", ";">>,
    <<"export", "*", "from", "str", ";">>, <<"export", "=", "$a", ";">>, <<"export", "as", "namespace", "N", ";">>,
    <<"declare", "module", "str", "{", "let", "x", ":", "$a", ";", "}">>,
    <<"declare", "global", "{", "$a", ";", "}">>, <<"namespace", "A", ".", "B", "{", "$a", ";", "}">>,
    <<"declare", "function", "f", "<", "const", "T", "extends", "$a", ">", "(", "x", "?", ":", "T", ",", "...", "y",
      ":", "$b", ")", ":", "asserts", "x", "is", "T", ";">>,
    <<"declare", "const", "enum", "E", "{", "A", ",", "str", "=", "$a", "}">>,
    <<"type", "X", "<", "in", "out", "T", "=", "$a", ">", "=", "$b", ";">>,
    <<"abstract", "class", "C", "extends", "B", "<", "$a", ">", "{", "abstract", "m", "(", ")", ":", "T", ";",
      "declare", "readonly", "p", "!", ":", "$b", ";", "static", "accessor", "q", "=", "1", ";", "[", "k", ":",
      "string", "]", ":", "T", ";", "#p", ";", "}">>,
    <<"class", "C", "{", "static", "async", "*", "[", "$a", "]", "<", "T", ">", "(", "x", "?", ":", "T", ")", ":",
      "T", "{", "$b", ";", "}", "get", "z", "(", ")", "{", "return", "1", ";", "}", "set", "z", "(", "v", ")", "{",
      "}", "override", "m", "(", ")", "{", "}", "}">>,
    <<"class", "C", "{", "private", "static", "p", "=", "$a", ";", "protected", "m", "(", ")", "{", "$b", ";", "}",
      "}">>,
    <<"interface", "I", "<", "T", ">", "extends", "J", "<", "$a", ">", "{", "(", "x", ":", "$b", ")", ":", "T", ";",
      "new", "(", "x", ")", ":", "T", ";", "readonly", "[", "k", ":", "string", "]", ":", "T", ";", "get", "z", "(",
      ")", ":", "T", ";", "set", "z", "(", "v", ")", ";", "m", "?", "<", "T", ">", "(", ")", ":", "T", ";", "}">>,
    <<"async", "function", "f", "(", "{", "a", ":", "b", "=", "$a", ",", "...", "r", "}", ":", "T", ",", "[", "c",
      "=", "$b", ",", "...", "d", "]", ")", "{", "for", "await", "(", "const", "x", "of", "y", ")", "{", "continue",
      "L", ";", "}", "}">>,
    <<"function", "*", "g", "(", "this", ":", "T", ",", "x", "=", "$a", ")", "{", "yield", "$b", ";", "}">>,
    <<"try", "{", "}", "finally", "{", "$a", ";", "}">>, <<"var", "x", ";">>, <<"debugger", ";">>, <<";">>,
    <<"with", "(", "$a", ")", "$b", ";">>, <<"for", "(", "var", "x", "in", "$a", ")", "$b", ";">>,
    <<"function", "f", "(", ")", "{", "return", ";", "}">>,
    <<"export", "default", "function", "f", "(", ")", "{", "$a", ";", "}">>,
    <<"export", "default", "class", "C", "extends", "$a", "{", "}">>,
    <<"export", "abstract", "class", "C", "{", "}">>, <<"$a", ";">>, <<"{", "$a", ";", "}">>,
    <<"if", "(", "$a", ")", "$b", ";">>, <<"if", "(", "x", ")", "$a", ";", "else", "$b", ";">>,
    <<"for", "(", ";", "$a", ";", "$b", ")", "x", ";">>,
    <<"for", "(", "let", "x", "=", "$a", ";", ";", ")", "$b", ";">>,
    <<"for", "(", "const", "x", "of", "$a", ")", "$b", ";">>, <<"for", "(", "x", "in", "$a", ")", "$b", ";">>,
    <<"while", "(", "$a", ")", "$b", ";">>, <<"do", "$b", ";", "while", "(", "$a", ")", ";">>,
    <<"function", "f", "(", ")", "{", "return", "$a", ";", "}">>, <<"throw", "$a", ";">>, <<"L", ":", "$a", ";">>,
    <<"switch", "(", "$a", ")", "{", "case", "$b", ":", "x", ";", "default", ":", "break", ";", "}">>,
    <<"try", "{", "$a", ";", "}", "catch", "(", "e", ")", "{", "$b", ";", "}">>,
    <<"const", "x", ":", "T", "=", "$a", ",", "{", "y", "=", "$b", "}", "=", "z", ";">>,
    <<"export", "default", "$a", ";">>, <<"export", "const", "x", "=", "$a", ";">>, <<"let", "x", ":", "$a", ";">>,
    <<"enum", "E", "{", "A", "=", "$a", ",", "}">>, <<"interface", "I", "{", "x", ":", "$a", ";", "}">>,
    <<"namespace", "N", "{", "$a", ";", "}">>,
    <<"class", "C", "<", "T", "extends", "$a", "=", "$b", ">", "implements", "I", "{", "p", "?", ":", "T", ";",
      "constructor", "(", "private", "x", ":", "U", ")", "{", "}", "}">>
  }

(* The texts whose nestings go one level deeper: an operator of every         *)
(* precedence on either side.                                                *)
MCCore ==
  {
    <<"$a", "+", "$b">>, <<"$a", "**", "$b">>, <<"-", "$a">>, <<"$a", "&&", "$b">>, <<"$a", "??", "$b">>,
    <<"$a", "?", "$b", ":", "c">>, <<"$a", ",", "$b">>, <<"x", "=", "$b">>, <<"async", "(", "x", ")", "=>", "$a">>,
    <<"$a", ".", "p">>, <<"$a", "(", "$b", ")">>, <<"new", "$a", "(", "$b", ")">>, <<"$a", "as", "T">>,
    <<"await", "$a">>, <<"$a", "!">>, <<"import", "(", "$a", ")">>, <<"$a", ";">>, <<"throw", "$a", ";">>,
    <<"$a", "[", "]">>, <<"$a", "|", "$b">>, <<"$a", "&", "$b">>, <<"(", "x", ":", "$a", ")", "=>", "$b">>,
    <<"$a", "extends", "$b", "?", "T", ":", "U">>, <<"keyof", "$a">>
  }
=============================================================================
