---------------------------- MODULE MCNegotiation ----------------------------
(* Two families of locales.  The first has every way an available id can   *)
(* stand to "en" and "en-US": equal, wider, narrower, another region or    *)
(* variant, another spelling or capitals, a duplicate, malformed.  The     *)
(* second needs the likely subtags again after dropping the region.        *)
EXTENDS Negotiation

CONSTANT None

Id(lang, script, region, variant) ==
  [lang |-> lang, script |-> script, region |-> region, variant |-> variant,
   caps |-> FALSE, sep |-> "-"]
Capitals(id)    == [id EXCEPT !.caps = TRUE]
Underscored(id) == [id EXCEPT !.sep = "_"]
Locale(lang, script, region) ==
  [lang |-> lang, script |-> script, region |-> region, variant |-> ""]

bad     == Id("", "", "", "")
en      == Id("en", "", "", "")
enUS    == Id("en", "", "US", "")
enGB    == Id("en", "", "GB", "")
enUSmac == Id("en", "", "US", "macos")
enUSwin == Id("en", "", "US", "windows")
frFR    == Id("fr", "", "FR", "")
fr      == Id("fr", "", "", "")
zhHK    == Id("zh", "", "HK", "")
zhTW    == Id("zh", "", "TW", "")
zhCN    == Id("zh", "", "CN", "")
zhHant  == Id("zh", "Hant", "", "")
zhHantHK == Id("zh", "Hant", "HK", "")

UpTo(n, S) == UNION {[1..m -> S] : m \in 0..n}

MCAvailable == {en, enUSmac, Underscored(enUS), enGB, Capitals(enUSwin), frFR}
MCChinese   == {zhTW, zhCN, zhHant, bad}
MCIds == {bad, en, enUS, Underscored(enUS), enGB, enUSmac, enUSwin, Capitals(enUSwin),
          fr, frFR, zhHK, zhTW, zhCN, zhHant, zhHantHK}

MCInputs ==
  [requested : UpTo(2, {bad, en, enUS, enUSwin, fr}),
   available : UpTo(3, MCAvailable), strategy : Strategies]
    \cup
  [requested : UpTo(2, {zhHK, zhHant, zhHantHK}),
   available : UpTo(3, MCChinese), strategy : Strategies]

MCLikely ==
  [l \in {Locale("en", "", ""), Locale("zh", "", ""), Locale("zh", "Hant", ""),
          Locale("zh", "", "HK"), Locale("zh", "", "TW")} |->
     CASE l.lang = "en"     -> Locale("en", "Latn", "US")
       [] l.region = "HK"   -> Locale("zh", "Hant", "HK")
       [] l.region = "TW"   -> Locale("zh", "Hant", "TW")
       [] l.script = "Hant" -> Locale("zh", "Hant", "TW")
       [] OTHER             -> Locale("zh", "Hans", "CN")]

MCOwnRegion == [lang \in {"fr"} |-> "FR"]

MCDefaults == {None, en, frFR}
=============================================================================
