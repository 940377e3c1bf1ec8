------------------------------ MODULE MCMapcore ------------------------------
EXTENDS Mapcore

MCViews   == {"view"}
MCEdits   == {"edit"}
MCManages == {"manage"}
MCUsers   == {"ann", "bob", "eve"}
MCTitles  == {"old", "new"}
MCKeys    == {"k1", "k2"}
=============================================================================
