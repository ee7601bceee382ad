SPECIFICATION Spec
CONSTANTS
  p1 = p1
  p2 = p2
  v1 = v1
  v2 = v2
  Nada = Nada
  Programas = {p1, p2}
  Valores = {v1}
  Tamanios <- MCTamanioOnce
  MaxPorciones = 2
  Prudentes = TRUE
  g_cantidadFrames = 2
  maxPaginasEnSwap = 5
  lengthPagina = 16
  tamanio_heap = 5
CHECK_DEADLOCK FALSE
INVARIANTS
  PaginaVuelve
