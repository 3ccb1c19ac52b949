SPECIFICATION Spec
CONSTANTS
    Threads = {main, w1, w2}
    Main = main
    OldFiles <- Versions
    AdminKeys <- Changed
INVARIANTS
    TypeOK
    FirstInitWhole
    AdminChoiceStands
    
    
    
